---- MODULE Spec2Model ----
(***************************************************************************)
(* Verification model of the Salesforce metadata relationship extraction   *)
(* engine: the converter (metadata_converter.py), the later passes          *)
(* (comprehensive_metadata_parser.py, enhanced_metadata_parser.py), the     *)
(* impact analysis (analyze_relationships.py) and the graph store loaders   *)
(* (neo4j_loader.py, enhanced_neo4j_loader.py).                             *)
(*                                                                         *)
(* Each component has its own variables and its own specification; a       *)
(* specification leaves the variables of the other components unchanged.   *)
(***************************************************************************)
EXTENDS Integers, Sequences, FiniteSets, TLC

VARIABLES
    \* MetadataRelationshipAnalyzer (analyze_relationships.py)
    an_relationships,   \* self.relationships, loaded by load_data
    an_pc,              \* "ready" | "done": position of the caller
    an_component,       \* component_id of the last generate_impact_analysis
    an_affected_by,     \* first list returned
    an_affects,         \* second list returned
    \* A caller of extract_comprehensive_dependencies (metadata_converter.py)
    ex_source,          \* source_code
    ex_seed,            \* the process's set-listing order
    ex_pc,              \* "ready" | "done"
    ex_result,          \* the dependency record returned
    \* SalesforceMetadataConverter (metadata_converter.py)
    fs,                 \* the source tree under source_dir
    cv_seed,            \* the process's set-listing order
    relationships,      \* self.relationships
    conversion_stats,   \* self.conversion_stats
    all_metadata,       \* the all_metadata of the convert_all_metadata call
    cv_pc,              \* "idle" | "running" (inside convert_all_metadata)
    cv_cursor,          \* the item of the tree the walk is at
    cv_runs,            \* completed convert_all_metadata calls
    cv_results,         \* what each completed call returned, with the statistics
    cv_last,            \* the last process_* call: its input, result and frame
    \* The later passes (comprehensive_metadata_parser.py, enhanced_metadata_parser.py)
    pa_tree,            \* the Contact and Opportunity directories under objects/
    pa_existing,        \* converted_metadata/relationships.json as found
    objects_data,       \* ComprehensiveMetadataParser.objects_data
    pa_files,           \* the files the passes have written
    pa_last,            \* the last save_*: the objects analysed and the edges found
    \* Neo4jMetadataLoader (neo4j_loader.py) and the graph store
    ld_files,           \* converted_metadata/*.json
    ld_nodes,           \* the nodes of the store
    ld_rels,            \* the relationships of the store
    ld_constraints,     \* the labels under a uniqueness constraint on id
    ld_pc,              \* the step load_all_metadata is at, "idle" outside it
    ld_clear,           \* clear_existing of the call
    ld_loads,           \* load_all_metadata calls that have ended
    ld_outcome,         \* per ended call: its clear_existing, and whether it raised
    \* A caller of xml_to_dict (metadata_converter.py)
    xm_element,         \* the element handed to xml_to_dict
    xm_pc,              \* "ready" | "done"
    xm_result,          \* the value returned
    \* Callers of the per-file operations on one converter
    workers             \* per caller: the step it is at and its local values

anVars == <<an_relationships, an_pc, an_component, an_affected_by, an_affects>>

exVars == <<ex_source, ex_seed, ex_pc, ex_result>>

cvVars == <<fs, cv_seed, relationships, conversion_stats, all_metadata, cv_pc, cv_cursor,
            cv_runs, cv_results, cv_last>>

paVars == <<pa_tree, pa_existing, objects_data, pa_files, pa_last>>

ldVars == <<ld_files, ld_nodes, ld_rels, ld_constraints, ld_pc, ld_clear, ld_loads, ld_outcome>>

xmVars == <<xm_element, xm_pc, xm_result>>

wkVars == <<workers>>

vars == <<anVars, exVars, cvVars, paVars, ldVars, xmVars, wkVars>>

(***************************************************************************)
(* Generic helpers on sequences.                                           *)
(***************************************************************************)
RECURSIVE SeqsUpTo(_, _)
SeqsUpTo(S, n) ==
    IF n = 0 THEN {<<>>}
    ELSE LET shorter == SeqsUpTo(S, n - 1)
         IN  shorter \cup {Append(s, x) : s \in {t \in shorter : Len(t) = n - 1}, x \in S}

Range(s) == {s[i] : i \in 1..Len(s)}

(***************************************************************************)
(* Source texts.  A source text is a sequence of forms, each the smallest  *)
(* piece of Apex text one of the extractor's patterns recognises:          *)
(*   call     a.b();              new      new a();                        *)
(*   list     List<a> v;          dml      insert a;                       *)
(*   soql     [SELECT b FROM a];  extends  extends a                       *)
(*   annot    @a                  assign   v.b = 1;                        *)
(*   setting  a.getInstance()     endpoint req.setEndpoint('a');           *)
(*   label    Label.a             resource $Resource.a                     *)
(*   email    Messaging.sendEmail(m);                                      *)
(*   head     trigger a on b (ev) {      (ev: the event list)              *)
(* Names are strings, so letter case and length are those of the text.     *)
(***************************************************************************)
Form(k, a, b) == [k |-> k, a |-> a, b |-> b, ev |-> <<>>]

HeadForm(t, o, events) == [k |-> "head", a |-> t, b |-> o, ev |-> events]

\* Names of the model's texts that start with a lower-case letter: the
\* case-sensitive patterns ([A-Z]...) do not match them, the re.IGNORECASE
\* ones do.
LowerCaseNames == {"acc", "account", "run", "a", "b", "getInstance"}

StartsUpper(name) == name \notin LowerCaseNames /\ Len(name) >= 1

\* [A-Z][a-zA-Z0-9_]+ : an upper-case letter and at least one more character.
ClassLike(name) == StartsUpper(name) /\ Len(name) >= 2

system_classes ==
    {"System", "Database", "String", "Integer", "Boolean", "Decimal", "Date", "DateTime",
     "Time", "Messaging", "Http", "HttpRequest", "HttpResponse", "JSON", "Math", "Test",
     "Schema", "UserInfo", "Limits", "ApexPages", "PageReference", "Blob", "Crypto",
     "Pattern", "Matcher", "Exception", "DmlException", "QueryException"}

HttpAnnotations == {"HttpGet", "HttpPost", "HttpPut", "HttpDelete", "HttpPatch"}

\* 1. soql_patterns: '[SELECT b FROM a' appends the object; the bare
\*    'FROM a' pattern appends it again.
SoqlObjectFirst(f) == IF f.k = "soql" THEN <<f.a>> ELSE <<>>

SoqlObjectBare(f) == IF f.k = "soql" THEN <<f.a>> ELSE <<>>

SoqlFields(f) ==
    IF f.k = "soql" /\ StartsUpper(f.b) THEN <<f.a \o "." \o f.b>> ELSE <<>>

\* 2. dml_patterns (re.IGNORECASE): insert/update/delete/upsert a, new a(,
\*    List<a>.  No denylist is applied to these matches.
DmlTarget(f) == IF f.k = "dml" THEN <<f.a>> ELSE <<>>

DmlNew(f) == IF f.k = "new" THEN <<f.a>> ELSE <<>>

DmlList(f) == IF f.k = "list" THEN <<f.a>> ELSE <<>>

\* 3. field_patterns: '.b =' appends the bare field name.
FieldAssign(f) == IF f.k = "assign" /\ StartsUpper(f.b) THEN <<f.b>> ELSE <<>>

\* 4. class_patterns, filtered through system_classes.
NotSystem(name) == name \notin system_classes

\* A static call other than getInstance() contributes the qualified call only.
ClassCall_leaves_out_the_class(f) ==
    IF f.k = "setting" /\ ClassLike(f.a) /\ NotSystem(f.a) THEN <<f.a>> ELSE <<>>

ClassCall(f) ==
    IF f.k \in {"call", "setting"} /\ ClassLike(f.a) /\ NotSystem(f.a) THEN <<f.a>> ELSE <<>>

MethodCall(f) ==
    IF f.k \in {"call", "setting"} /\ ClassLike(f.a) /\ NotSystem(f.a)
    THEN <<f.a \o "." \o f.b>> ELSE <<>>

ClassNew(f) == IF f.k = "new" /\ ClassLike(f.a) /\ NotSystem(f.a) THEN <<f.a>> ELSE <<>>

ClassExtends(f) ==
    IF f.k = "extends" /\ ClassLike(f.a) /\ NotSystem(f.a) THEN <<f.a>> ELSE <<>>

ClassAnnotation(f) ==
    IF f.k = "annot" /\ ClassLike(f.a) /\ NotSystem(f.a) THEN <<f.a>> ELSE <<>>

\* 5. custom_settings_patterns
SettingAccess(f) == IF f.k = "setting" THEN <<f.a>> ELSE <<>>

\* 6. webservice_patterns
WsEndpoint(f) == IF f.k = "endpoint" THEN <<f.a>> ELSE <<>>

WsAnnotation(f) ==
    IF f.k = "annot" /\ f.a \in HttpAnnotations THEN <<"@" \o f.a>> ELSE <<>>

\* 7. email_patterns
EmailUse(f) == IF f.k = "email" THEN <<"Messaging.sendEmail">> ELSE <<>>

\* 8. label_patterns, 9. static_resource_patterns
LabelRef(f) == IF f.k = "label" THEN <<f.a>> ELSE <<>>

ResourceRef(f) == IF f.k = "resource" THEN <<f.a>> ELSE <<>>

\* The matches of one pattern on one form.
PatternMatch(p, f) ==
    CASE p = "soql_select" -> SoqlObjectFirst(f)
      [] p = "soql_from" -> SoqlObjectBare(f)
      [] p = "soql_fields" -> SoqlFields(f)
      [] p = "dml_target" -> DmlTarget(f)
      [] p = "dml_new" -> DmlNew(f)
      [] p = "dml_list" -> DmlList(f)
      [] p = "field_assign" -> FieldAssign(f)
      [] p = "class_call" -> ClassCall(f)
      [] p = "method_call" -> MethodCall(f)
      [] p = "class_new" -> ClassNew(f)
      [] p = "class_extends" -> ClassExtends(f)
      [] p = "class_annotation" -> ClassAnnotation(f)
      [] p = "setting" -> SettingAccess(f)
      [] p = "ws_endpoint" -> WsEndpoint(f)
      [] p = "ws_annotation" -> WsAnnotation(f)
      [] p = "email" -> EmailUse(f)
      [] p = "label" -> LabelRef(f)
      [] p = "resource" -> ResourceRef(f)

\* re.findall of one pattern over the text: its matches in text order.
RECURSIVE Matches(_, _)
Matches(src, p) ==
    IF src = <<>> THEN <<>> ELSE PatternMatch(p, Head(src)) \o Matches(Tail(src), p)

\* The lists as they stand before the final clean-up: pattern by pattern.
RawDependencies(src) ==
    [objects |-> Matches(src, "soql_select") \o Matches(src, "soql_from")
                 \o Matches(src, "dml_target") \o Matches(src, "dml_new")
                 \o Matches(src, "dml_list"),
     classes |-> Matches(src, "class_call") \o Matches(src, "class_new")
                 \o Matches(src, "class_extends") \o Matches(src, "class_annotation"),
     fields |-> Matches(src, "soql_fields") \o Matches(src, "field_assign"),
     methods |-> Matches(src, "method_call"),
     custom_settings |-> Matches(src, "setting"),
     web_services |-> Matches(src, "ws_endpoint") \o Matches(src, "ws_annotation"),
     email_templates |-> Matches(src, "email"),
     custom_labels |-> Matches(src, "label"),
     static_resources |-> Matches(src, "resource"),
     triggers |-> <<>>,
     workflows |-> <<>>]

\* list(set(...)): the order in which a set is listed is fixed within one
\* process and differs between processes (string hashing is seeded); seed
\* selects one of two listings.
Reverse(s) == [i \in 1..Len(s) |-> s[Len(s) + 1 - i]]

SomeListing(S) == CHOOSE q \in [1..Cardinality(S) -> S] : Range(q) = S

ListOfSet(S, seed) == IF seed = 0 THEN SomeListing(S) ELSE Reverse(SomeListing(S))

\* dependencies[key] = list(set([dep for dep in dependencies[key] if dep and len(dep) > 1]))
CleanUp(raw, seed) == ListOfSet({d \in Range(raw) : Len(d) > 1}, seed)

\* An extractor that gives a key only to the categories with matches.
extract_comprehensive_dependencies_matched_keys_only(src, seed) ==
    LET raw == RawDependencies(src)
    IN  [key \in {k \in DOMAIN raw : raw[k] # <<>>} |-> CleanUp(raw[key], seed)]

extract_comprehensive_dependencies(src, seed) ==
    LET raw == RawDependencies(src)
    IN  [key \in DOMAIN raw |-> CleanUp(raw[key], seed)]

(***************************************************************************)
(* The converter (metadata_converter.py).                                  *)
(*                                                                         *)
(* The source tree is a sequence of items in the order convert_all_metadata*)
(* meets them: object directories, layout files, class files, trigger      *)
(* files, workflow files.  A file is "ok" (well-formed), "bad" (ET.parse   *)
(* or the read raises) or, where the code tests exists(), "absent".        *)
(* An optional result (a record or None) is a sequence of length 1 or 0.   *)
(***************************************************************************)
None == <<>>

Some(x) == <<x>>

RECURSIVE Join(_, _)
Join(pieces, sep) ==
    IF pieces = <<>> THEN ""
    ELSE IF Len(pieces) = 1 THEN pieces[1]
    ELSE pieces[1] \o sep \o Join(Tail(pieces), sep)

\* __init__: self.relationships = [], the counters 0, errors [].
FreshStats ==
    [objects_processed |-> 0, fields_processed |-> 0, layouts_processed |-> 0,
     classes_processed |-> 0, triggers_processed |-> 0, workflows_processed |-> 0,
     errors |-> <<>>]

Count(stats, key) == [stats EXCEPT ![key] = @ + 1]

Fail(stats, message) == [stats EXCEPT !.errors = Append(@, message)]

\* ---- process_field, process_listview, process_weblink ------------------
\* A process_field that counts the files that fail as well.
process_field_counts_every_file(field_file, object_name, stats) ==
    IF field_file.status = "ok"
    THEN [data |-> Some([id |-> "field_" \o object_name \o "_" \o field_file.name,
                         type |-> "CustomField",
                         name |-> field_file.name,
                         object |-> object_name,
                         metadata |-> "parsed"]),
          stats |-> Count(stats, "fields_processed")]
    ELSE [data |-> None,
          stats |-> Count(Fail(stats, "Error processing field " \o object_name \o "/fields/"
                                      \o field_file.name),
                          "fields_processed")]

process_field(field_file, object_name, stats) ==
    IF field_file.status = "ok"
    THEN [data |-> Some([id |-> "field_" \o object_name \o "_" \o field_file.name,
                         type |-> "CustomField",
                         name |-> field_file.name,
                         object |-> object_name,
                         metadata |-> "parsed"]),
          stats |-> Count(stats, "fields_processed")]
    ELSE [data |-> None,
          stats |-> Fail(stats, "Error processing field " \o object_name \o "/fields/"
                                \o field_file.name)]

process_listview(listview_file, object_name, stats) ==
    IF listview_file.status = "ok"
    THEN [data |-> Some([id |-> "listview_" \o object_name \o "_" \o listview_file.name,
                         type |-> "ListView",
                         name |-> listview_file.name,
                         object |-> object_name,
                         metadata |-> "parsed"]),
          stats |-> stats]
    ELSE [data |-> None,
          stats |-> Fail(stats, "Error processing listview " \o object_name \o "/listViews/"
                                \o listview_file.name)]

process_weblink(weblink_file, object_name, stats) ==
    IF weblink_file.status = "ok"
    THEN [data |-> Some([id |-> "weblink_" \o object_name \o "_" \o weblink_file.name,
                         type |-> "WebLink",
                         name |-> weblink_file.name,
                         object |-> object_name,
                         metadata |-> "parsed"]),
          stats |-> stats]
    ELSE [data |-> None,
          stats |-> Fail(stats, "Error processing weblink " \o object_name \o "/webLinks/"
                                \o weblink_file.name)]

SubFile(kind, file, object_name, stats) ==
    CASE kind = "fields" -> process_field(file, object_name, stats)
      [] kind = "listViews" -> process_listview(file, object_name, stats)
      [] kind = "webLinks" -> process_weblink(file, object_name, stats)

\* One type for every sub-component of an object.
StructuralType_one_for_all(kind) == "HAS_COMPONENT"

StructuralType(kind) ==
    CASE kind = "fields" -> "HAS_FIELD"
      [] kind = "listViews" -> "HAS_LISTVIEW"
      [] kind = "webLinks" -> "HAS_WEBLINK"

\* The structural edge appended for a sub-file that parsed: no 'details'.
StructuralEdge(object_id, sub_id, kind) ==
    [from |-> object_id, to |-> sub_id, type |-> StructuralType(kind)]

\* One of the three loops of process_custom_object over the files of a
\* sub-directory: acc = [list, rels, stats].
RECURSIVE SubLoop(_, _, _, _)
SubLoop(kind, files, object_name, acc) ==
    IF files = <<>> THEN acc
    ELSE LET r == SubFile(kind, Head(files), object_name, acc.stats)
             next ==
                 IF r.data # None
                 THEN [list |-> Append(acc.list, r.data[1]),
                       rels |-> Append(acc.rels,
                                       StructuralEdge("object_" \o object_name,
                                                      r.data[1].id, kind)),
                       stats |-> r.stats]
                 ELSE [acc EXCEPT !.stats = r.stats]
         IN  SubLoop(kind, Tail(files), object_name, next)

\* The main object file: parsed and counted, or an error recorded, or (when
\* it does not exist) neither; object_data is returned in every case.
ObjectFileStats(dir, stats) ==
    CASE dir.objfile = "ok" -> Count(stats, "objects_processed")
      [] dir.objfile = "bad" -> Fail(stats, "Error processing " \o dir.name \o "/" \o dir.name
                                            \o ".object-meta.xml")
      [] OTHER -> stats

process_custom_object(dir, stats) ==
    LET s0 == ObjectFileStats(dir, stats)
        f == SubLoop("fields", dir.fields, dir.name, [list |-> <<>>, rels |-> <<>>, stats |-> s0])
        l == SubLoop("listViews", dir.listViews, dir.name,
                     [list |-> <<>>, rels |-> f.rels, stats |-> f.stats])
        w == SubLoop("webLinks", dir.webLinks, dir.name,
                     [list |-> <<>>, rels |-> l.rels, stats |-> l.stats])
    IN  [data |-> Some([id |-> "object_" \o dir.name,
                        type |-> "CustomObject",
                        name |-> dir.name,
                        metadata |-> IF dir.objfile = "ok" THEN "parsed" ELSE "{}",
                        fields |-> f.list,
                        listViews |-> l.list,
                        webLinks |-> w.list]),
         rels |-> w.rels,
         stats |-> w.stats]

\* ---- process_layout ----------------------------------------------------
\* A layout name is a sequence of pieces (words, and the characters the id
\* construction and the object-name split look at, each a piece of its own).
LayoutIdPiece(piece) ==
    CASE piece = " " -> "_"
      [] piece \in {"(", ")", "%28", "%29"} -> ""
      [] OTHER -> piece

LayoutId(pieces) == "layout_" \o Join([i \in 1..Len(pieces) |-> LayoutIdPiece(pieces[i])], "")

\* layout_name.split('-')[0]
RECURSIVE BeforeDash(_)
BeforeDash(pieces) ==
    IF pieces = <<>> \/ Head(pieces) = "-" THEN <<>>
    ELSE <<Head(pieces)>> \o BeforeDash(Tail(pieces))

\* The text of an element: core with or without surrounding white space;
\* Python treats it as true unless it is empty.
Text(core, padded) == [core |-> core, padded |-> padded]

Truthy(text) == text.core # "" \/ text.padded

Strip(text) == text.core

RECURSIVE StrippedTexts(_)
StrippedTexts(texts) ==
    IF texts = <<>> THEN <<>>
    ELSE (IF Truthy(Head(texts)) THEN <<Strip(Head(texts))>> ELSE <<>>)
         \o StrippedTexts(Tail(texts))

\* The texts of the 'field' elements as they occur, repetitions kept.
extract_layout_fields_keeping_repeats(layout_file, seed) ==
    StrippedTexts(layout_file.field_texts)

\* _extract_layout_fields: the texts of the 'field' elements, as list(set()).
extract_layout_fields(layout_file, seed) ==
    ListOfSet(Range(StrippedTexts(layout_file.field_texts)), seed)

\* _extract_related_lists: the blocks with a non-empty target object.
RECURSIVE extract_related_lists(_)
extract_related_lists(blocks) ==
    IF blocks = <<>> THEN <<>>
    ELSE (IF Truthy(Head(blocks).object) /\ Strip(Head(blocks).object) # ""
          THEN <<[object |-> Strip(Head(blocks).object),
                  fields |-> StrippedTexts(Head(blocks).fields),
                  label |-> ""]>>
          ELSE <<>>)
         \o extract_related_lists(Tail(blocks))

RelatedListEdges(layout_id, related_list) ==
    <<[from |-> layout_id, to |-> "object_" \o related_list.object,
       type |-> "SHOWS_RELATED_LIST",
       details |-> "Layout shows related " \o related_list.object \o " records"]>>
    \o [i \in 1..Len(related_list.fields) |->
          [from |-> layout_id,
           to |-> "field_" \o related_list.object \o "_" \o related_list.fields[i],
           type |-> "DISPLAYS_RELATED_FIELD",
           details |-> "Related list displays field " \o related_list.fields[i]]]

RECURSIVE AllRelatedListEdges(_, _)
AllRelatedListEdges(layout_id, related_lists) ==
    IF related_lists = <<>> THEN <<>>
    ELSE RelatedListEdges(layout_id, Head(related_lists))
         \o AllRelatedListEdges(layout_id, Tail(related_lists))

DisplaysFieldEdge(layout_id, object_name, field) ==
    [from |-> layout_id, to |-> "field_" \o object_name \o "_" \o field,
     type |-> "DISPLAYS_FIELD",
     details |-> "Field " \o field \o " is displayed on layout"]

create_layout_relationships(layout_id, object_name, fields, related_lists) ==
    <<[from |-> "object_" \o object_name, to |-> layout_id, type |-> "HAS_LAYOUT",
       details |-> "Layout displays " \o ToString(Len(fields)) \o " fields"]>>
    \o [i \in 1..Len(fields) |-> DisplaysFieldEdge(layout_id, object_name, fields[i])]
    \o AllRelatedListEdges(layout_id, related_lists)

process_layout(layout_file, stats, seed) ==
    IF layout_file.status = "ok"
    THEN LET layout_name == Join(layout_file.pieces, "")
             object_name == Join(BeforeDash(layout_file.pieces), "")
             layout_id == LayoutId(layout_file.pieces)
             fields_on_layout == extract_layout_fields(layout_file, seed)
             related_lists == extract_related_lists(layout_file.related)
         IN  [data |-> Some([id |-> layout_id,
                             type |-> "Layout",
                             name |-> layout_name,
                             object |-> object_name,
                             metadata |-> "parsed",
                             fields_on_layout |-> fields_on_layout,
                             related_lists |-> related_lists]),
              rels |-> create_layout_relationships(layout_id, object_name,
                                                   fields_on_layout, related_lists),
              stats |-> Count(stats, "layouts_processed")]
    ELSE [data |-> None,
          rels |-> <<>>,
          stats |-> Fail(stats, "Error processing layout " \o Join(layout_file.pieces, ""))]

\* ---- edges from a dependency record ------------------------------------
\* The names a qualified entry 'x.y' of the model's texts can be made of.
QualifierNames ==
    {"Util", "AccountHandler", "MathHelper", "Caller", "Account", "account", "Contact",
     "Settings__c"}

MemberNames == {"a", "b", "run", "stop", "Name", "getInstance"}

\* '.' in entry
HasDot(entry) == \E x \in QualifierNames, y \in MemberNames : entry = x \o "." \o y

\* entry.split('.', 1)
SplitDot(entry) ==
    CHOOSE p \in QualifierNames \X MemberNames : entry = p[1] \o "." \o p[2]

\* The endpoint texts of the model, cut at the characters the id replaces.
UrlPieces(url) ==
    CASE url = "https://x.y/z" -> <<"https", ":", "/", "/", "x.y", "/", "z">>
      [] url = "callout:Named/z" -> <<"callout", ":", "Named", "/", "z">>
      [] OTHER -> <<url>>

\* service.startswith('http')
StartsWithHttp(service) == UrlPieces(service)[1] \in {"http", "https"}

WebServiceIdPiece(piece) == IF piece \in {"/", ":"} THEN "_" ELSE piece

\* service.replace('/', '_').replace(':', '_')
WebServiceId(service) ==
    LET p == UrlPieces(service)
    IN  "webservice_" \o Join([i \in 1..Len(p) |-> WebServiceIdPiece(p[i])], "")

\* 'Handler' in cls or 'Helper' in cls
HandlerNames == {"AccountHandler", "MathHelper"}

IsHandler(cls) == cls \in HandlerNames

SimpleEdges(from_id, entries, prefix, type, details) ==
    [i \in 1..Len(entries) |->
        [from |-> from_id, to |-> prefix \o entries[i], type |-> type, details |-> details]]

RECURSIVE FieldEdges(_, _, _, _)
FieldEdges(from_id, entries, type, wording) ==
    IF entries = <<>> THEN <<>>
    ELSE (IF HasDot(Head(entries))
          THEN LET p == SplitDot(Head(entries))
               IN  <<[from |-> from_id, to |-> "field_" \o p[1] \o "_" \o p[2], type |-> type,
                      details |-> wording \o p[2]
                                  \o (IF type = "ACCESSES_FIELD" THEN " on " \o p[1] ELSE "")]>>
          ELSE <<>>)
         \o FieldEdges(from_id, Tail(entries), type, wording)

RECURSIVE MethodEdges(_, _)
MethodEdges(class_id, entries) ==
    IF entries = <<>> THEN <<>>
    ELSE (IF HasDot(Head(entries))
          THEN LET p == SplitDot(Head(entries))
               IN  <<[from |-> class_id, to |-> "class_" \o p[1], type |-> "CALLS_METHOD",
                      details |-> "Calls method " \o p[2]]>>
          ELSE <<>>)
         \o MethodEdges(class_id, Tail(entries))

RECURSIVE WebServiceEdges(_, _)
WebServiceEdges(class_id, entries) ==
    IF entries = <<>> THEN <<>>
    ELSE (IF StartsWithHttp(Head(entries))
          THEN <<[from |-> class_id, to |-> WebServiceId(Head(entries)),
                  type |-> "CALLS_WEBSERVICE",
                  details |-> "Makes HTTP callout to " \o Head(entries)]>>
          ELSE <<>>)
         \o WebServiceEdges(class_id, Tail(entries))

create_class_relationships(class_id, dependencies) ==
    SimpleEdges(class_id, dependencies.objects, "object_", "USES_OBJECT",
                "References object in SOQL/DML operations")
    \o SimpleEdges(class_id, dependencies.classes, "class_", "DEPENDS_ON_CLASS",
                   "Calls methods or instantiates class")
    \o FieldEdges(class_id, dependencies.fields, "ACCESSES_FIELD", "Accesses field ")
    \o MethodEdges(class_id, dependencies.methods)
    \o SimpleEdges(class_id, dependencies.custom_settings, "object_", "USES_CUSTOM_SETTING",
                   "Accesses custom setting or metadata")
    \o WebServiceEdges(class_id, dependencies.web_services)
    \o SimpleEdges(class_id, dependencies.email_templates, "emailtemplate_",
                   "USES_EMAIL_TEMPLATE", "Uses email template for messaging")
    \o SimpleEdges(class_id, dependencies.custom_labels, "customlabel_", "USES_CUSTOM_LABEL",
                   "References custom label")
    \o SimpleEdges(class_id, dependencies.static_resources, "staticresource_",
                   "USES_STATIC_RESOURCE", "References static resource")

\* Every class of a trigger taken as called, whatever its name.
TriggerClassEdge_calls_every_class(trigger_id, cls) ==
    [from |-> trigger_id, to |-> "class_" \o cls, type |-> "CALLS_CLASS",
     details |-> "Trigger calls methods in this class"]

TriggerClassEdge(trigger_id, cls) ==
    IF IsHandler(cls)
    THEN [from |-> trigger_id, to |-> "class_" \o cls, type |-> "DELEGATES_TO_HANDLER",
          details |-> "Trigger delegates business logic to handler class"]
    ELSE [from |-> trigger_id, to |-> "class_" \o cls, type |-> "CALLS_CLASS",
          details |-> "Trigger calls methods in this class"]

RECURSIVE TriggerObjectEdges(_, _, _)
TriggerObjectEdges(trigger_id, objects, trigger_object) ==
    IF objects = <<>> THEN <<>>
    ELSE (IF Some(Head(objects)) # trigger_object
          THEN <<[from |-> trigger_id, to |-> "object_" \o Head(objects),
                  type |-> "AFFECTS_OBJECT",
                  details |-> "Trigger performs operations on " \o Head(objects)]>>
          ELSE <<>>)
         \o TriggerObjectEdges(trigger_id, Tail(objects), trigger_object)

\* Classes, objects other than the owning one, qualified fields; the
\* methods and the other categories of the record are not read.
create_trigger_relationships(trigger_id, dependencies, trigger_object) ==
    [i \in 1..Len(dependencies.classes) |-> TriggerClassEdge(trigger_id, dependencies.classes[i])]
    \o TriggerObjectEdges(trigger_id, dependencies.objects, trigger_object)
    \o FieldEdges(trigger_id, dependencies.fields, "MODIFIES_FIELD",
                  "Trigger modifies or reads field ")

\* ---- process_apex_class, process_trigger, process_workflow -------------
\* The read of the source or the parse of the -meta.xml raises before any
\* edge is appended.
SourceFileFails(file) == ~file.readable \/ file.meta = "bad"

process_apex_class(class_file, stats, seed) ==
    IF SourceFileFails(class_file)
    THEN [data |-> None, rels |-> <<>>,
          stats |-> Fail(stats, "Error processing class " \o class_file.name)]
    ELSE LET class_id == "class_" \o class_file.name
             dependencies == extract_comprehensive_dependencies(class_file.source, seed)
         IN  [data |-> Some([id |-> class_id,
                             type |-> "ApexClass",
                             name |-> class_file.name,
                             source_code |-> class_file.source,
                             metadata |-> IF class_file.meta = "ok" THEN "parsed" ELSE "{}",
                             comprehensive_dependencies |-> dependencies]),
              rels |-> create_class_relationships(class_id, dependencies),
              stats |-> Count(stats, "classes_processed")]

\* re.search of the trigger head: the first 'trigger t on o (' of the text.
RECURSIVE FirstHead(_)
FirstHead(src) ==
    IF src = <<>> THEN None
    ELSE IF Head(src).k = "head" THEN Some(Head(src))
    ELSE FirstHead(Tail(src))

extract_trigger_object(src) ==
    IF FirstHead(src) = None THEN None ELSE Some(FirstHead(src)[1].b)

extract_trigger_events(src) ==
    IF FirstHead(src) = None THEN <<>> ELSE FirstHead(src)[1].ev

HasTriggerEdges(trigger_id, trigger_object, trigger_events) ==
    IF trigger_object = None THEN <<>>
    ELSE <<[from |-> "object_" \o trigger_object[1], to |-> trigger_id, type |-> "HAS_TRIGGER",
            details |-> "Trigger events: " \o Join(trigger_events, ", ")]>>

process_trigger(trigger_file, stats, seed) ==
    IF SourceFileFails(trigger_file)
    THEN [data |-> None, rels |-> <<>>,
          stats |-> Fail(stats, "Error processing trigger " \o trigger_file.name)]
    ELSE LET trigger_id == "trigger_" \o trigger_file.name
             trigger_object == extract_trigger_object(trigger_file.source)
             trigger_events == extract_trigger_events(trigger_file.source)
             dependencies == extract_comprehensive_dependencies(trigger_file.source, seed)
         IN  [data |-> Some([id |-> trigger_id,
                             type |-> "ApexTrigger",
                             name |-> trigger_file.name,
                             source_code |-> trigger_file.source,
                             metadata |-> IF trigger_file.meta = "ok" THEN "parsed" ELSE "{}",
                             object |-> trigger_object,
                             trigger_events |->
                                 IF trigger_object = None THEN <<>> ELSE trigger_events,
                             comprehensive_dependencies |-> dependencies]),
              rels |-> HasTriggerEdges(trigger_id, trigger_object, trigger_events)
                       \o create_trigger_relationships(trigger_id, dependencies,
                                                       trigger_object),
              stats |-> Count(stats, "triggers_processed")]

\* A process_workflow that appends its edge before it parses the file.
process_workflow_appends_before_parse(workflow_file, stats) ==
    [data |-> IF workflow_file.status = "ok"
              THEN Some([id |-> "workflow_" \o workflow_file.name, type |-> "Workflow",
                         name |-> workflow_file.name, object |-> workflow_file.name,
                         metadata |-> "parsed"])
              ELSE None,
     rels |-> <<[from |-> "object_" \o workflow_file.name,
                 to |-> "workflow_" \o workflow_file.name,
                 type |-> "HAS_WORKFLOW"]>>,
     stats |-> IF workflow_file.status = "ok" THEN Count(stats, "workflows_processed")
               ELSE Fail(stats, "Error processing workflow " \o workflow_file.name)]

process_workflow(workflow_file, stats) ==
    IF workflow_file.status = "ok"
    THEN [data |-> Some([id |-> "workflow_" \o workflow_file.name,
                         type |-> "Workflow",
                         name |-> workflow_file.name,
                         object |-> workflow_file.name,
                         metadata |-> "parsed"]),
          rels |-> <<[from |-> "object_" \o workflow_file.name,
                      to |-> "workflow_" \o workflow_file.name,
                      type |-> "HAS_WORKFLOW"]>>,
          stats |-> Count(stats, "workflows_processed")]
    ELSE [data |-> None, rels |-> <<>>,
          stats |-> Fail(stats, "Error processing workflow " \o workflow_file.name)]

\* ---- the source tree ----------------------------------------------------
SubF(name, status) == [name |-> name, status |-> status]

ObjDir(name, objfile, fields, listViews, webLinks) ==
    [kind |-> "object", name |-> name, objfile |-> objfile, fields |-> fields,
     listViews |-> listViews, webLinks |-> webLinks]

LayoutFile(pieces, status, field_texts, related) ==
    [kind |-> "layout", pieces |-> pieces, status |-> status, field_texts |-> field_texts,
     related |-> related]

SourceFile(kind, name, source, readable, meta) ==
    [kind |-> kind, name |-> name, source |-> source, readable |-> readable, meta |-> meta]

WorkflowFile(name, status) == [kind |-> "workflow", name |-> name, status |-> status]

\* The path of an item under its type's directory.
ItemName(item) == IF item.kind = "layout" THEN Join(item.pieces, "") ELSE item.name

KindRank(kind) ==
    CASE kind = "object" -> 1
      [] kind = "layout" -> 2
      [] kind = "class" -> 3
      [] kind = "trigger" -> 4
      [] kind = "workflow" -> 5

\* convert_all_metadata walks objects, layouts, classes, triggers, workflows
\* in this order; within a directory the order is the file system's.
TypeOrdered(tree) ==
    \A i, j \in 1..Len(tree) : i < j => KindRank(tree[i].kind) <= KindRank(tree[j].kind)

DistinctPaths(tree) ==
    \A i, j \in 1..Len(tree) :
        (tree[i].kind = tree[j].kind /\ ItemName(tree[i]) = ItemName(tree[j])) => i = j

Trees(items, n) == {t \in SeqsUpTo(items, n) : TypeOrdered(t) /\ DistinctPaths(t)}

MaxFiles == 2

MaxRuns == 2

FieldChoices ==
    {<<SubF("C", "ok")>>, <<SubF("B_C", "ok")>>, <<SubF("C", "bad"), SubF("B_C", "ok")>>}

ObjectDirs ==
    {ObjDir(n, s, f, <<>>, <<>>) : n \in {"A", "A_B"}, s \in {"ok", "bad", "absent"},
                                  f \in FieldChoices}
    \cup {ObjDir("A", "ok", <<>>, <<SubF("All", sl)>>, <<SubF("Link", sw)>>) :
            sl \in {"ok", "bad"}, sw \in {"ok", "bad"}}

LayoutNames == {<<"A", "-", "L", " ", "(", "X", ")">>, <<"A", "-", "L", " ", "X">>}

LayoutFiles ==
    {LayoutFile(p, "ok", <<Text("Name", FALSE), Text("Industry", FALSE), Text("Name", TRUE)>>,
                <<>>) : p \in LayoutNames}
    \cup {LayoutFile(p, "bad", <<>>, <<>>) : p \in LayoutNames}
    \cup {LayoutFile(<<"A", "-", "L">>, "ok", <<Text("Name", FALSE)>>,
                     <<[object |-> Text("Contact", FALSE),
                        fields |-> <<Text("Name", FALSE)>>]>>)}

ClassSources ==
    {<<Form("call", "Util", "a"), Form("call", "Util", "b")>>,
     <<Form("call", "Caller", "a"), Form("list", "String", "")>>,
     <<Form("soql", "Account", "Name"), Form("setting", "Settings__c", "getInstance")>>,
     <<Form("endpoint", "https://x.y/z", ""), Form("label", "Foo", "")>>,
     <<Form("email", "", ""), Form("resource", "Bar", "")>>,
     <<Form("annot", "HttpGet", ""), Form("endpoint", "callout:Named/z", "")>>,
     <<Form("call", "Util", "a"), Form("call", "Util", "b"), Form("new", "A", "")>>}

ClassFiles ==
    {SourceFile("class", "Caller", s, TRUE, m) : s \in ClassSources, m \in {"ok", "absent"}}
    \cup {SourceFile("class", "Caller", <<>>, TRUE, "bad"),
          SourceFile("class", "Caller", <<>>, FALSE, "ok")}

TriggerSources ==
    {<<HeadForm("T", "Account", <<"before insert">>), Form("call", "AccountHandler", "run")>>,
     <<Form("call", "AccountHandler", "run")>>,
     <<HeadForm("T", "account", <<"before insert", "after update">>),
       Form("list", "Account", ""), Form("list", "Contact", "")>>,
     <<HeadForm("T", "Account", <<"before insert">>), Form("call", "Util", "a"),
       Form("soql", "Contact", "Name")>>,
     <<HeadForm("T", "Account", <<"before insert">>), Form("call", "AccountHandler", "run"),
       Form("call", "MathHelper", "a"), Form("call", "Util", "a")>>,
     <<HeadForm("T", "Account", <<"before insert">>), Form("label", "Foo", ""),
       Form("setting", "Settings__c", "getInstance")>>}

TriggerFiles ==
    {SourceFile("trigger", "T", s, TRUE, "ok") : s \in TriggerSources}
    \cup {SourceFile("trigger", "T", <<>>, TRUE, "bad")}

WorkflowFiles == {WorkflowFile("A", s) : s \in {"ok", "bad"}}

ConvItems == ObjectDirs \cup LayoutFiles \cup ClassFiles \cup TriggerFiles \cup WorkflowFiles

\* ---- convert_all_metadata ----------------------------------------------
FreshMetadata ==
    [objects |-> <<>>, layouts |-> <<>>, classes |-> <<>>, triggers |-> <<>>,
     workflows |-> <<>>, relationships |-> <<>>]

CvIdle ==
    /\ fs = <<>>
    /\ cv_seed = 0
    /\ relationships = <<>>
    /\ conversion_stats = FreshStats
    /\ all_metadata = FreshMetadata
    /\ cv_pc = "off"
    /\ cv_cursor = 0
    /\ cv_runs = 0
    /\ cv_results = <<>>
    /\ cv_last = [op |-> "none"]

\* A converter constructed over a source tree.
CvStart(trees) ==
    /\ fs \in trees
    /\ cv_seed \in {0, 1}
    /\ relationships = <<>>
    /\ conversion_stats = FreshStats
    /\ all_metadata = FreshMetadata
    /\ cv_pc = "idle"
    /\ cv_cursor = 0
    /\ cv_runs = 0
    /\ cv_results = <<>>
    /\ cv_last = [op |-> "none"]

ConvStart ==
    /\ cv_pc = "idle"
    /\ cv_runs < MaxRuns
    /\ all_metadata' = FreshMetadata
    /\ cv_cursor' = 1
    /\ cv_pc' = "running"
    /\ cv_last' = [op |-> "start"]
    /\ UNCHANGED <<fs, cv_seed, relationships, conversion_stats, cv_runs, cv_results>>
    /\ UNCHANGED <<anVars, exVars, paVars, ldVars, xmVars, wkVars>>

\* The effect of one process_* call of the walk on the converter: the edges
\* appended, the statistics, and the record appended when it is not None.
Apply(key, r) ==
    /\ relationships' = relationships \o r.rels
    /\ conversion_stats' = r.stats
    /\ all_metadata' = IF r.data = None THEN all_metadata
                       ELSE [all_metadata EXCEPT ![key] = Append(@, r.data[1])]
    /\ cv_cursor' = cv_cursor + 1
    /\ cv_last' = [op |-> key, item |-> fs[cv_cursor], before |-> Len(relationships),
                   stats_before |-> conversion_stats, out |-> r.data]
    /\ UNCHANGED <<fs, cv_seed, cv_pc, cv_runs, cv_results>>
    /\ UNCHANGED <<anVars, exVars, paVars, ldVars, xmVars, wkVars>>

AtItem(kind) ==
    /\ cv_pc = "running"
    /\ cv_cursor <= Len(fs)
    /\ fs[cv_cursor].kind = kind

StepObject ==
    /\ AtItem("object")
    /\ Apply("objects", process_custom_object(fs[cv_cursor], conversion_stats))

StepLayout ==
    /\ AtItem("layout")
    /\ Apply("layouts", process_layout(fs[cv_cursor], conversion_stats, cv_seed))

StepClass ==
    /\ AtItem("class")
    /\ Apply("classes", process_apex_class(fs[cv_cursor], conversion_stats, cv_seed))

StepTrigger ==
    /\ AtItem("trigger")
    /\ Apply("triggers", process_trigger(fs[cv_cursor], conversion_stats, cv_seed))

StepWorkflow ==
    /\ AtItem("workflow")
    /\ Apply("workflows", process_workflow(fs[cv_cursor], conversion_stats))

\* all_metadata['relationships'] = self.relationships; return all_metadata
ConvFinish ==
    /\ cv_pc = "running"
    /\ cv_cursor > Len(fs)
    /\ all_metadata' = [all_metadata EXCEPT !.relationships = relationships]
    /\ cv_results' = Append(cv_results, [metadata |-> all_metadata',
                                         stats |-> conversion_stats])
    /\ cv_runs' = cv_runs + 1
    /\ cv_pc' = "idle"
    /\ cv_last' = [op |-> "finish"]
    /\ UNCHANGED <<fs, cv_seed, relationships, conversion_stats, cv_cursor>>
    /\ UNCHANGED <<anVars, exVars, paVars, ldVars, xmVars, wkVars>>

(***************************************************************************)
(* The later passes over the Contact and Opportunity objects:              *)
(* comprehensive_metadata_parser.py and enhanced_metadata_parser.py.       *)
(***************************************************************************)
\* A field name is a sequence of pieces, each a word that holds no 'Id'
\* inside it, or the piece 'Id' itself; the name is their concatenation.
NamePieces == {"Account", "Contact", "Opportunity", "Id"}

MaxNamePieces == 3

FieldNames == SeqsUpTo(NamePieces, MaxNamePieces) \ {<<>>}

\* field_name.endswith('Id')
EndsWithId(pieces) == pieces[Len(pieces)] = "Id"

\* field_name.replace('Id', ''): every occurrence goes.
RECURSIVE ReplaceId(_)
ReplaceId(pieces) ==
    IF pieces = <<>> THEN <<>>
    ELSE (IF Head(pieces) = "Id" THEN <<>> ELSE <<Head(pieces)>>) \o ReplaceId(Tail(pieces))

\* A field as the org declares it, and the state of its definition file.
DeclaredField(name, type, referenceTo, status) ==
    [name |-> name, type |-> type, referenceTo |-> referenceTo, status |-> status]

\* An object directory: in source format every field has a file of its own,
\* in the other format the object file lists the fields.
ParserDir(format, objfile, fields, listViews, webLinks) ==
    [format |-> format, objfile |-> objfile, fields |-> fields, listViews |-> listViews,
     webLinks |-> webLinks]

\* parse_field_file: {} (here None) when the file does not parse.
parse_field_file(field) ==
    IF field.status = "ok"
    THEN Some([name |-> field.name, type |-> field.type, label |-> field.name]
              @@ (IF field.referenceTo = None THEN <<>>
                  ELSE [referenceTo |-> field.referenceTo[1]]))
    ELSE None

parse_listview_file(listview) ==
    IF listview.status = "ok"
    THEN Some([name |-> listview.name, type |-> "ListView"])
    ELSE None

parse_weblink_file(weblink) ==
    IF weblink.status = "ok"
    THEN Some([name |-> weblink.name, type |-> "WebLink"])
    ELSE None

\* The records of the files of a directory that parse, in directory order.
RECURSIVE ParsedFiles(_, _)
ParsedFiles(files, kind) ==
    IF files = <<>> THEN <<>>
    ELSE LET data == CASE kind = "field" -> parse_field_file(Head(files))
                       [] kind = "listview" -> parse_listview_file(Head(files))
                       [] kind = "weblink" -> parse_weblink_file(Head(files))
         IN  data \o ParsedFiles(Tail(files), kind)

\* ComprehensiveMetadataParser.parse_object_with_fields
parse_object_with_fields(tree, object_name) ==
    IF tree[object_name] = None THEN None
    ELSE LET dir == tree[object_name][1]
         IN  Some([name |-> object_name,
                   type |-> "CustomObject",
                   fields |-> IF dir.format = "source"
                              THEN ParsedFiles(dir.fields, "field") ELSE <<>>,
                   listViews |-> IF dir.format = "source"
                                 THEN ParsedFiles(dir.listViews, "listview") ELSE <<>>,
                   webLinks |-> IF dir.format = "source"
                                THEN ParsedFiles(dir.webLinks, "weblink") ELSE <<>>])

\* EnhancedMetadataParser.parse_contact_object / parse_opportunity_object:
\* the fields and list views the object file itself lists.
parse_object_file(tree, object_name) ==
    IF tree[object_name] = None THEN None
    ELSE LET dir == tree[object_name][1]
         IN  IF dir.objfile # "ok" THEN None
             ELSE Some([name |-> object_name,
                        type |-> "CustomObject",
                        fields |-> IF dir.format = "source" THEN <<>>
                                   ELSE [i \in 1..Len(dir.fields) |->
                                           [name |-> dir.fields[i].name,
                                            type |-> dir.fields[i].type,
                                            label |-> dir.fields[i].name]],
                        listViews |-> IF dir.format = "source" THEN <<>>
                                      ELSE [i \in 1..Len(dir.listViews) |->
                                              [name |-> dir.listViews[i].name,
                                               type |-> "ListView"]],
                        webLinks |-> <<>>])

Edge(from, to, type, context) ==
    [from |-> from, to |-> to, type |-> type, context |-> context]

standard_relationships ==
    <<Edge("Contact", "Account", "BELONGS_TO", "Contact.AccountId lookup field"),
      Edge("Opportunity", "Account", "BELONGS_TO", "Opportunity.AccountId lookup field"),
      Edge("Opportunity", "Contact", "RELATES_TO", "Opportunity can have Contact roles")>>

KnownObjects == {"Account", "Contact", "Opportunity"}

\* The edges analyze_comprehensive_relationships adds for one field.
ComprehensiveFieldEdges(obj_name, field) ==
    LET field_name == Join(field.name, "")
        target_object == Join(ReplaceId(field.name), "")
    IN  <<Edge(obj_name, field_name, "HAS_FIELD",
               obj_name \o " object has field " \o field_name)>>
        \o (IF "referenceTo" \in DOMAIN field
            THEN <<Edge(obj_name, field.referenceTo, "REFERENCES",
                        obj_name \o "." \o field_name \o " references " \o field.referenceTo)>>
            ELSE <<>>)
        \o (IF EndsWithId(field.name) /\ field.name # <<"Id">>
               /\ target_object \in KnownObjects
            THEN <<Edge(obj_name, target_object, "LOOKUP_TO",
                        obj_name \o "." \o field_name \o " lookup to " \o target_object)>>
            ELSE <<>>)

RECURSIVE ComprehensiveObjectEdges(_, _, _, _)
ComprehensiveObjectEdges(obj_name, fields, listViews, webLinks) ==
    IF fields # <<>>
    THEN ComprehensiveFieldEdges(obj_name, Head(fields))
         \o ComprehensiveObjectEdges(obj_name, Tail(fields), listViews, webLinks)
    ELSE IF listViews # <<>>
    THEN <<Edge(obj_name, Head(listViews).name, "HAS_LISTVIEW",
                obj_name \o " object has list view " \o Head(listViews).name)>>
         \o ComprehensiveObjectEdges(obj_name, <<>>, Tail(listViews), webLinks)
    ELSE IF webLinks # <<>>
    THEN <<Edge(obj_name, Head(webLinks).name, "HAS_WEBLINK",
                obj_name \o " object has web link " \o Head(webLinks).name)>>
         \o ComprehensiveObjectEdges(obj_name, <<>>, <<>>, Tail(webLinks))
    ELSE <<>>

RECURSIVE AllComprehensiveEdges(_)
AllComprehensiveEdges(objects) ==
    IF objects = <<>> THEN <<>>
    ELSE ComprehensiveObjectEdges(Head(objects).name, Head(objects).fields,
                                  Head(objects).listViews, Head(objects).webLinks)
         \o AllComprehensiveEdges(Tail(objects))

analyze_comprehensive_relationships(objects) ==
    standard_relationships \o AllComprehensiveEdges(objects)

\* The edge analyze_cross_object_relationships adds for one field.
CrossFieldEdges(obj_name, field) ==
    LET field_name == Join(field.name, "")
    IN  IF field.type \in {"Lookup", "MasterDetail"} \/ EndsWithId(field.name)
        THEN (IF field.name = <<"Account", "Id">>
              THEN <<Edge(obj_name, "Account", "LOOKUP_TO",
                          obj_name \o "." \o field_name \o " field")>>
              ELSE IF field.name = <<"Contact", "Id">>
              THEN <<Edge(obj_name, "Contact", "LOOKUP_TO",
                          obj_name \o "." \o field_name \o " field")>>
              ELSE <<>>)
        ELSE <<>>

RECURSIVE CrossObjectEdges(_, _)
CrossObjectEdges(obj_name, fields) ==
    IF fields = <<>> THEN <<>>
    ELSE CrossFieldEdges(obj_name, Head(fields)) \o CrossObjectEdges(obj_name, Tail(fields))

RECURSIVE AllCrossEdges(_)
AllCrossEdges(objects) ==
    IF objects = <<>> THEN <<>>
    ELSE CrossObjectEdges(Head(objects).name, Head(objects).fields)
         \o AllCrossEdges(Tail(objects))

analyze_cross_object_relationships(objects) ==
    standard_relationships \o AllCrossEdges(objects)

\* A reader that knows the array format only.
existing_relationships_array_only(existing) ==
    IF existing = None THEN <<>>
    ELSE IF existing[1].kind = "list" THEN existing[1].items
    ELSE <<>>

\* The edges read back from relationships.json: the array itself, or the
\* 'relationships' entry of a mapping, [] when there is no file or no entry.
existing_relationships(existing) ==
    IF existing = None THEN <<>>
    ELSE IF existing[1].kind = "list" THEN existing[1].items
    ELSE IF existing[1].relationships = None THEN <<>>
    ELSE existing[1].relationships[1]

\* ---- the object directories the passes read -----------------------------
FieldKinds ==
    {[type |-> "Lookup", referenceTo |-> Some("Account")],
     [type |-> "Text", referenceTo |-> None]}

ContactFields ==
    {DeclaredField(n, k.type, k.referenceTo, "ok") : n \in FieldNames, k \in FieldKinds}
    \cup {DeclaredField(<<"Account", "Id">>, "Lookup", None, "bad")}

DirShapes ==
    {[format |-> "source", objfile |-> "ok"], [format |-> "source", objfile |-> "absent"],
     [format |-> "mdapi", objfile |-> "ok"], [format |-> "mdapi", objfile |-> "bad"]}

ContactDirs ==
    {None}
    \cup {Some(ParserDir(s.format, s.objfile, f, <<>>, <<>>)) :
            s \in DirShapes, f \in {<<>>} \cup {<<x>> : x \in ContactFields}}

OpportunityDirs ==
    {None,
     Some(ParserDir("source", "ok",
                    <<DeclaredField(<<"Account", "Id">>, "Lookup", Some("Account"), "ok"),
                      DeclaredField(<<"Name">>, "Text", None, "ok"),
                      DeclaredField(<<"Partner", "Account", "Id">>, "Lookup", Some("Account"),
                                    "ok")>>,
                    <<SubF("All", "ok"), SubF("Mine", "bad")>>,
                    <<SubF("Link", "ok"), SubF("Old", "bad")>>)),
     Some(ParserDir("mdapi", "ok",
                    <<DeclaredField(<<"Contact", "Id">>, "Text", None, "ok")>>,
                    <<SubF("All", "ok")>>, <<>>))}

\* relationships.json as an earlier pass left it.
ExistingFiles ==
    {None,
     Some([kind |-> "list",
           items |-> <<[from |-> "object_Contact", to |-> "field_Contact_AccountId",
                        type |-> "HAS_FIELD"]>>]),
     Some([kind |-> "dict",
           relationships |-> Some(<<Edge("Contact", "Account", "BELONGS_TO",
                                         "Contact.AccountId lookup field")>>)]),
     Some([kind |-> "dict", relationships |-> None])}

PaIdle ==
    /\ pa_tree = <<>>
    /\ pa_existing = None
    /\ objects_data = <<>>
    /\ pa_files = <<>>
    /\ pa_last = [op |-> "none"]

PaStart ==
    /\ \E c \in ContactDirs, o \in OpportunityDirs : pa_tree = [Contact |-> c, Opportunity |-> o]
    /\ pa_existing \in ExistingFiles
    /\ objects_data = <<>>
    /\ pa_files = <<>>
    /\ pa_last = [op |-> "none"]

\* One file per analysed object.
ObjectFiles(objects, suffix) ==
    [n \in {o.name \o suffix : o \in Range(objects)} |->
        CHOOSE o \in Range(objects) : o.name \o suffix = n]

\* len(data.get('fields', [])) if data else 0
FieldCount(data) == IF data = None THEN 0 ELSE Len(data[1].fields)

\* ComprehensiveMetadataParser.save_comprehensive_metadata
save_comprehensive_metadata ==
    LET contact_data == parse_object_with_fields(pa_tree, "Contact")
        opportunity_data == parse_object_with_fields(pa_tree, "Opportunity")
        objects == contact_data \o opportunity_data
        comprehensive_relationships == analyze_comprehensive_relationships(objects)
        all_relationships == existing_relationships(pa_existing) \o comprehensive_relationships
    IN  /\ objects_data' = objects
        /\ pa_files' =
               ("comprehensive_relationships.json" :>
                    [metadata |->
                        [total_relationships |-> Len(all_relationships),
                         comprehensive_relationships |-> Len(comprehensive_relationships),
                         objects_analyzed |-> [i \in 1..Len(objects) |-> objects[i].name],
                         contact_fields |-> FieldCount(contact_data),
                         opportunity_fields |-> FieldCount(opportunity_data)],
                     relationships |-> all_relationships])
               @@ ObjectFiles(objects, "_comprehensive.json") @@ pa_files
        /\ pa_last' = [op |-> "comprehensive", objects |-> objects,
                       relationships |-> comprehensive_relationships]
        /\ UNCHANGED <<pa_tree, pa_existing>>
        /\ UNCHANGED <<anVars, exVars, cvVars, ldVars, xmVars, wkVars>>

\* EnhancedMetadataParser.save_enhanced_metadata
save_enhanced_metadata ==
    LET contact_data == parse_object_file(pa_tree, "Contact")
        opportunity_data == parse_object_file(pa_tree, "Opportunity")
        all_objects == contact_data \o opportunity_data
        cross_relationships == analyze_cross_object_relationships(all_objects)
        all_relationships == existing_relationships(pa_existing) \o cross_relationships
    IN  /\ pa_files' =
               ("enhanced_relationships.json" :>
                    [metadata |->
                        [total_relationships |-> Len(all_relationships),
                         cross_object_relationships |-> Len(cross_relationships),
                         objects_analyzed |-> [i \in 1..Len(all_objects) |->
                                                 all_objects[i].name]],
                     relationships |-> all_relationships])
               @@ ObjectFiles(all_objects, ".json") @@ pa_files
        /\ pa_last' = [op |-> "enhanced", objects |-> all_objects,
                       relationships |-> cross_relationships]
        /\ UNCHANGED <<pa_tree, pa_existing, objects_data>>
        /\ UNCHANGED <<anVars, exVars, cvVars, ldVars, xmVars, wkVars>>

(***************************************************************************)
(* Neo4jMetadataLoader (neo4j_loader.py) over a graph store.               *)
(*                                                                         *)
(* The store is a list of nodes (a label and the properties id and name)   *)
(* and a list of relationships between node positions.  A uniqueness       *)
(* constraint on a label makes the store refuse a second node of that      *)
(* label with the same id.                                                 *)
(***************************************************************************)
Node(label, id, name) == [label |-> label, id |-> id, name |-> name]

\* CREATE (n:Label {id: ...}): the node is added unless a constraint on its
\* label refuses it, and then the statement raises.
Refused(nodes, constraints, node) ==
    /\ node.label \in constraints
    /\ \E i \in 1..Len(nodes) : nodes[i].label = node.label /\ nodes[i].id = node.id

\* The CREATE statements of one load_* method, one after the other, each
\* committed on its own; the first refusal ends the method with the error.
RECURSIVE CreateNodes(_, _, _)
CreateNodes(nodes, constraints, new) ==
    IF new = <<>> THEN [nodes |-> nodes, raised |-> FALSE]
    ELSE IF Refused(nodes, constraints, Head(new)) THEN [nodes |-> nodes, raised |-> TRUE]
    ELSE CreateNodes(Append(nodes, Head(new)), constraints, Tail(new))

\* The nodes load_objects creates for one object record: the object, then
\* its fields, its list views and its web links.
ObjectNodes(obj) ==
    <<Node("CustomObject", obj.id, obj.name)>>
    \o [i \in 1..Len(obj.fields) |-> Node("CustomField", obj.fields[i].id, obj.fields[i].name)]
    \o [i \in 1..Len(obj.listViews) |->
          Node("ListView", obj.listViews[i].id, obj.listViews[i].name)]
    \o [i \in 1..Len(obj.webLinks) |->
          Node("WebLink", obj.webLinks[i].id, obj.webLinks[i].name)]

RECURSIVE AllObjectNodes(_)
AllObjectNodes(objects) ==
    IF objects = <<>> THEN <<>>
    ELSE ObjectNodes(Head(objects)) \o AllObjectNodes(Tail(objects))

PlainNodes(label, records) ==
    [i \in 1..Len(records) |-> Node(label, records[i].id, records[i].name)]

\* A statement that matches the source only and links it to every node.
MatchingPairs_on_source_only(nodes, rel) ==
    {p \in (1..Len(nodes)) \X (1..Len(nodes)) : nodes[p[1]].id = rel.from}

\* MATCH (from {id: $from_id}) MATCH (to {id: $to_id}) CREATE (from)-[:T]->(to)
\* creates one relationship per pair of matching nodes.
MatchingPairs(nodes, rel) ==
    {p \in (1..Len(nodes)) \X (1..Len(nodes)) :
        nodes[p[1]].id = rel.from /\ nodes[p[2]].id = rel.to}

RECURSIVE PairsInOrder(_)
PairsInOrder(pairs) ==
    IF pairs = {} THEN <<>>
    ELSE LET p == CHOOSE q \in pairs :
                    \A r \in pairs : q[1] < r[1] \/ (q[1] = r[1] /\ q[2] <= r[2])
         IN  <<p>> \o PairsInOrder(pairs \ {p})

CreateRelationship(nodes, rel) ==
    LET pairs == PairsInOrder(MatchingPairs(nodes, rel))
    IN  [i \in 1..Len(pairs) |-> [from |-> pairs[i][1], to |-> pairs[i][2], type |-> rel.type]]

RECURSIVE CreateRelationships(_, _)
CreateRelationships(nodes, rels) ==
    IF rels = <<>> THEN <<>>
    ELSE CreateRelationship(nodes, Head(rels)) \o CreateRelationships(nodes, Tail(rels))

NodeLabels ==
    {"CustomObject", "CustomField", "Layout", "ApexClass", "ApexTrigger", "Workflow",
     "ListView", "WebLink"}

\* A uniqueness constraint cannot be created over nodes that break it.
HasDuplicates(nodes, label) ==
    \E i, j \in 1..Len(nodes) :
        i # j /\ nodes[i].label = label /\ nodes[j].label = label /\ nodes[i].id = nodes[j].id

\* ---- converted_metadata/*.json ------------------------------------------
MaxLoads == 2

LoaderField(object, name) ==
    [id |-> "field_" \o object \o "_" \o name, name |-> name, type |-> "CustomField",
     object |-> object]

LoaderObject(name, fields, listViews, webLinks) ==
    [id |-> "object_" \o name, name |-> name, type |-> "CustomObject", fields |-> fields,
     listViews |-> listViews, webLinks |-> webLinks]

LoaderRecord(prefix, name, type) == [id |-> prefix \o name, name |-> name, type |-> type]

ObjectArrays ==
    {None,
     Some(<<LoaderObject("A", <<LoaderField("A", "C")>>, <<>>, <<>>)>>),
     Some(<<LoaderObject("A", <<LoaderField("A", "B_C")>>,
                         <<[id |-> "listview_A_All", name |-> "All", type |-> "ListView",
                            object |-> "A"]>>,
                         <<[id |-> "weblink_A_Link", name |-> "Link", type |-> "WebLink",
                            object |-> "A"]>>),
            LoaderObject("A_B", <<LoaderField("A_B", "C")>>, <<>>, <<>>)>>)}

LayoutArrays == {None, Some(<<LoaderRecord("layout_", "A-L", "Layout")>>)}

ClassArrays == {None, Some(<<LoaderRecord("class_", "Caller", "ApexClass")>>)}

TriggerArrays == {None, Some(<<LoaderRecord("trigger_", "T", "ApexTrigger")>>)}

WorkflowArrays == {None, Some(<<LoaderRecord("workflow_", "A", "Workflow")>>)}

LoaderEdge(from, to, type) == [from |-> from, to |-> to, type |-> type]

EdgeArrays ==
    {None,
     Some(<<LoaderEdge("object_A", "field_A_C", "HAS_FIELD")>>),
     Some(<<LoaderEdge("class_Caller", "class_Util", "CALLS_METHOD"),
            LoaderEdge("object_A", "layout_A-L", "HAS_LAYOUT")>>),
     Some(<<LoaderEdge("class_Caller", "object_A", "USES_OBJECT"),
            LoaderEdge("class_Caller", "object_A", "USES_OBJECT"),
            LoaderEdge("object_A", "trigger_T", "HAS_TRIGGER")>>)}

LdIdle ==
    /\ ld_files = <<>>
    /\ ld_nodes = <<>>
    /\ ld_rels = <<>>
    /\ ld_constraints = {}
    /\ ld_pc = "off"
    /\ ld_clear = FALSE
    /\ ld_loads = 0
    /\ ld_outcome = <<>>

\* A loader connected to an empty store, the converter's files on disk.
LdStart ==
    /\ \E o \in ObjectArrays, l \in LayoutArrays, c \in ClassArrays, t \in TriggerArrays,
          w \in WorkflowArrays, r \in EdgeArrays :
           ld_files = [objects |-> o, layouts |-> l, classes |-> c, triggers |-> t,
                       workflows |-> w, relationships |-> r]
    /\ ld_nodes = <<>>
    /\ ld_rels = <<>>
    /\ ld_constraints = {}
    /\ ld_pc = "idle"
    /\ ld_clear = FALSE
    /\ ld_loads = 0
    /\ ld_outcome = <<>>

\* A load_all_metadata that loads the relationships before the nodes.
load_all_metadata_relationships_first ==
    /\ ld_pc = "idle"
    /\ ld_loads < MaxLoads
    /\ \E clear_existing \in BOOLEAN :
           /\ ld_clear' = clear_existing
           /\ ld_pc' = "load_relationships"
    /\ UNCHANGED <<ld_files, ld_nodes, ld_rels, ld_constraints, ld_loads, ld_outcome>>
    /\ UNCHANGED <<anVars, exVars, cvVars, paVars, xmVars, wkVars>>

\* load_all_metadata(clear_existing) is entered.
load_all_metadata ==
    /\ ld_pc = "idle"
    /\ ld_loads < MaxLoads
    /\ \E clear_existing \in BOOLEAN :
           /\ ld_clear' = clear_existing
           /\ ld_pc' = IF clear_existing THEN "clear_database" ELSE "create_constraints"
    /\ UNCHANGED <<ld_files, ld_nodes, ld_rels, ld_constraints, ld_loads, ld_outcome>>
    /\ UNCHANGED <<anVars, exVars, cvVars, paVars, xmVars, wkVars>>

\* MATCH (n) DETACH DELETE n
clear_database ==
    /\ ld_pc = "clear_database"
    /\ ld_nodes' = <<>>
    /\ ld_rels' = <<>>
    /\ ld_pc' = "create_constraints"
    /\ UNCHANGED <<ld_files, ld_constraints, ld_clear, ld_loads, ld_outcome>>
    /\ UNCHANGED <<anVars, exVars, cvVars, paVars, xmVars, wkVars>>

\* Each CREATE CONSTRAINT is tried on its own and its failure only logged:
\* the server may refuse the statement, and it refuses a constraint the
\* stored nodes already break.
create_constraints ==
    /\ ld_pc = "create_constraints"
    /\ \E accepted \in {{}, NodeLabels} :
           ld_constraints' =
               ld_constraints \cup {l \in accepted : ~HasDuplicates(ld_nodes, l)}
    /\ ld_pc' = "load_objects"
    /\ UNCHANGED <<ld_files, ld_nodes, ld_rels, ld_clear, ld_loads, ld_outcome>>
    /\ UNCHANGED <<anVars, exVars, cvVars, paVars, xmVars, wkVars>>

\* The error of a load_* method leaves load_all_metadata, which logs it and
\* raises it again.
LoadStep(file, new, next) ==
    LET r == CreateNodes(ld_nodes, ld_constraints, new)
    IN  /\ ld_nodes' = (IF ld_files[file] = None THEN ld_nodes ELSE r.nodes)
        /\ IF ld_files[file] # None /\ r.raised
           THEN /\ ld_pc' = "idle"
                /\ ld_loads' = ld_loads + 1
                /\ ld_outcome' = Append(ld_outcome, [clear |-> ld_clear, raised |-> TRUE])
           ELSE /\ ld_pc' = next
                /\ UNCHANGED <<ld_loads, ld_outcome>>
        /\ UNCHANGED <<ld_files, ld_rels, ld_constraints, ld_clear>>
        /\ UNCHANGED <<anVars, exVars, cvVars, paVars, xmVars, wkVars>>

FileRecords(file) == IF ld_files[file] = None THEN <<>> ELSE ld_files[file][1]

load_objects ==
    /\ ld_pc = "load_objects"
    /\ LoadStep("objects", AllObjectNodes(FileRecords("objects")), "load_layouts")

load_layouts ==
    /\ ld_pc = "load_layouts"
    /\ LoadStep("layouts", PlainNodes("Layout", FileRecords("layouts")), "load_classes")

load_classes ==
    /\ ld_pc = "load_classes"
    /\ LoadStep("classes", PlainNodes("ApexClass", FileRecords("classes")), "load_triggers")

load_triggers ==
    /\ ld_pc = "load_triggers"
    /\ LoadStep("triggers", PlainNodes("ApexTrigger", FileRecords("triggers")),
                "load_workflows")

load_workflows ==
    /\ ld_pc = "load_workflows"
    /\ LoadStep("workflows", PlainNodes("Workflow", FileRecords("workflows")),
                "load_relationships")

\* The last step of load_all_metadata.
load_relationships ==
    /\ ld_pc = "load_relationships"
    /\ ld_rels' = ld_rels \o CreateRelationships(ld_nodes, FileRecords("relationships"))
    /\ ld_pc' = "idle"
    /\ ld_loads' = ld_loads + 1
    /\ ld_outcome' = Append(ld_outcome, [clear |-> ld_clear, raised |-> FALSE])
    /\ UNCHANGED <<ld_files, ld_nodes, ld_constraints, ld_clear>>
    /\ UNCHANGED <<anVars, exVars, cvVars, paVars, xmVars, wkVars>>

(***************************************************************************)
(* xml_to_dict (metadata_converter.py).                                    *)
(*                                                                         *)
(* An element has a tag (a sequence of pieces: '{', the namespace, '}',    *)
(* the local name; or the local name alone), a text (absent, or a Text),   *)
(* attributes (a mapping) and children (a sequence of elements).  A Python *)
(* value is a record of its type and its content.                          *)
(***************************************************************************)
PyNone == [py |-> "None", v |-> <<>>]

PyStr(s) == [py |-> "str", v |-> s]

PyDict(d) == [py |-> "dict", v |-> d]

PyList(l) == [py |-> "list", v |-> l]

Element(tag, text, attrib, children) ==
    [tag |-> tag, text |-> text, attrib |-> attrib, children |-> children]

\* tag.split('}')[-1] if '}' in tag else tag
RECURSIVE AfterLastBrace(_)
AfterLastBrace(pieces) ==
    IF \E i \in 1..Len(pieces) : pieces[i] = "}"
    THEN AfterLastBrace(Tail(pieces))
    ELSE pieces

remove_namespace(tag) == Join(AfterLastBrace(tag), "")

\* element.text and element.text.strip()
HasText(element) == element.text # None /\ Strip(element.text[1]) # ""

\* children[child_tag]: the value itself at the first occurrence, a list of
\* the values from the second one on.
AddChild(children, child_tag, child_value) ==
    IF child_tag \in DOMAIN children
    THEN [children EXCEPT ![child_tag] =
              IF @.py = "list" THEN PyList(Append(@.v, child_value))
              ELSE PyList(<<@, child_value>>)]
    ELSE children @@ (child_tag :> child_value)

RECURSIVE xml_to_dict(_)
RECURSIVE ChildValues(_, _)
ChildValues(elements, children) ==
    IF elements = <<>> THEN children
    ELSE ChildValues(Tail(elements),
                     AddChild(children, remove_namespace(Head(elements).tag),
                              xml_to_dict(Head(elements))))

xml_to_dict(element) ==
    IF HasText(element) /\ element.children = <<>>
    THEN PyStr(Strip(element.text[1]))
    ELSE LET text == IF HasText(element)
                     THEN ("_text" :> PyStr(Strip(element.text[1]))) ELSE <<>>
             attributes == IF DOMAIN element.attrib # {}
                           THEN ("_attributes" :> PyDict(element.attrib)) ELSE <<>>
             result == ChildValues(element.children, <<>>) @@ attributes @@ text
         IN  IF DOMAIN result = {} THEN PyNone ELSE PyDict(result)

\* ---- the elements handed to xml_to_dict ---------------------------------
MaxXmlChildren == 3

XmlTags ==
    {<<"fields">>, <<"label">>,
     <<"{", "http://soap.sforce.com/2006/04/metadata", "}", "fields">>}

XmlTexts == {None, Some(Text("Name", TRUE))}

XmlLeaves ==
    {Element(t, x, <<>>, <<>>) : t \in XmlTags, x \in XmlTexts}
    \cup {Element(<<"fields">>, x, ("nil" :> PyStr("true")), <<>>) : x \in XmlTexts}
    \cup {Element(<<"label">>, Some(Text("", TRUE)), <<>>, <<>>)}

XmlInner ==
    {Element(<<"fields">>, None, <<>>,
             <<Element(<<"fullName">>, Some(Text("Name", FALSE)), <<>>, <<>>),
               Element(<<"type">>, Some(Text("Text", FALSE)), <<>>, <<>>)>>),
     Element(<<"label">>, Some(Text("Name", TRUE)), <<>>,
             <<Element(<<"value">>, None, <<>>, <<>>),
               Element(<<"value">>, Some(Text("x", FALSE)), <<>>, <<>>)>>)}

XmlRoots ==
    {Element(<<"{", "http://soap.sforce.com/2006/04/metadata", "}", "CustomObject">>,
             x, <<>>, c) :
        x \in {None, Some(Text("", TRUE))},
        c \in SeqsUpTo(XmlLeaves \cup XmlInner, MaxXmlChildren)}

WkIdle == workers = <<>>

XmIdle ==
    /\ xm_element = <<>>
    /\ xm_pc = "off"
    /\ xm_result = PyNone

\* root = tree.getroot() of a parsed definition file.
XmStart ==
    /\ xm_element \in XmlRoots \cup XmlLeaves \cup XmlInner
    /\ xm_pc = "ready"
    /\ xm_result = PyNone

XmCall ==
    /\ xm_pc = "ready"
    /\ xm_result' = xml_to_dict(xm_element)
    /\ xm_pc' = "done"
    /\ UNCHANGED xm_element
    /\ UNCHANGED <<anVars, exVars, cvVars, paVars, ldVars, wkVars>>

\* The caller parses its next file.
XmNextFile ==
    /\ xm_pc = "done"
    /\ xm_element' \in XmlLeaves \cup XmlInner
    /\ xm_pc' = "ready"
    /\ UNCHANGED xm_result
    /\ UNCHANGED <<anVars, exVars, cvVars, paVars, ldVars, wkVars>>

(***************************************************************************)
(* The extractor on its own: a caller hands it a source text.              *)
(***************************************************************************)
MaxForms == 2

ExtractForms ==
    {Form("call", "Util", "a"), Form("call", "Util", "b"), Form("call", "System", "debug"),
     Form("new", "Util", ""), Form("list", "String", ""), Form("list", "Account", ""),
     Form("soql", "Account", "Name"), Form("setting", "Settings__c", "getInstance"),
     Form("annot", "HttpGet", "")}

Categories ==
    {"objects", "classes", "fields", "methods", "custom_settings", "web_services",
     "email_templates", "custom_labels", "static_resources"}

ExIdle ==
    /\ ex_source = <<>>
    /\ ex_seed = 0
    /\ ex_pc = "idle"
    /\ ex_result = [key \in {} |-> <<>>]

AnIdle ==
    /\ an_relationships = <<>>
    /\ an_pc = "idle"
    /\ an_component = ""
    /\ an_affected_by = <<>>
    /\ an_affects = <<>>

ExInit ==
    /\ ex_source \in SeqsUpTo(ExtractForms, MaxForms)
    /\ ex_seed \in {0, 1}
    /\ ex_pc = "ready"
    /\ ex_result = [key \in {} |-> <<>>]
    /\ AnIdle
    /\ CvIdle
    /\ PaIdle
    /\ LdIdle
    /\ XmIdle
    /\ WkIdle

\* A call that keeps count of itself in the converter's statistics.
ExCall_counts_on_converter ==
    /\ ex_pc = "ready"
    /\ ex_result' = extract_comprehensive_dependencies(ex_source, ex_seed)
    /\ ex_pc' = "done"
    /\ conversion_stats' = Count(conversion_stats, "classes_processed")
    /\ UNCHANGED <<ex_source, ex_seed>>
    /\ UNCHANGED <<fs, cv_seed, relationships, all_metadata, cv_pc, cv_cursor, cv_runs,
                   cv_results, cv_last>>
    /\ UNCHANGED <<anVars, paVars, ldVars, xmVars, wkVars>>

ExCall ==
    /\ ex_pc = "ready"
    /\ ex_result' = extract_comprehensive_dependencies(ex_source, ex_seed)
    /\ ex_pc' = "done"
    /\ UNCHANGED <<ex_source, ex_seed>>
    /\ UNCHANGED <<anVars, cvVars, paVars, ldVars, xmVars, wkVars>>

\* The caller goes on to its next component.
ExNextComponent ==
    /\ ex_pc = "done"
    /\ ex_source' \in SeqsUpTo(ExtractForms, MaxForms)
    /\ ex_pc' = "ready"
    /\ UNCHANGED <<ex_seed, ex_result>>
    /\ UNCHANGED <<anVars, cvVars, paVars, ldVars, xmVars, wkVars>>

ExNext == ExCall \/ ExNextComponent

SpecExtract == ExInit /\ [][ExNext]_vars

NoDuplicates(s) == \A i, j \in 1..Len(s) : s[i] = s[j] => i = j

\* C5: every category list of the dependency record is free of duplicates
\* and holds no name of the built-in platform class denylist.
C5_NoDuplicateNoDenylisted ==
    ex_pc = "done" =>
        \A key \in Categories :
            /\ NoDuplicates(ex_result[key])
            /\ \A i \in 1..Len(ex_result[key]) : ex_result[key][i] \notin system_classes

(***************************************************************************)
(* Impact analysis (analyze_relationships.py)                              *)
(***************************************************************************)
MaxImpactEdges == 2

ImpactIds == {"class_A", "object_Account", "field_Account_Name"}

\* An edge of relationships.json; "details" is absent ("" through rel.get) on
\* the structural edges the converter writes without it.
ImpactEdges ==
    {[from |-> f, to |-> t, type |-> "DEPENDS_ON_CLASS", details |-> "Calls methods or instantiates class"] :
        f \in ImpactIds, t \in ImpactIds}
    \cup
    {[from |-> f, to |-> t, type |-> "HAS_FIELD", details |-> ""] :
        f \in ImpactIds, t \in ImpactIds}

AffectsItem(rel) == [target |-> rel.to, type |-> rel.type, details |-> rel.details]

AffectedByItem(rel) == [source |-> rel.from, type |-> rel.type, details |-> rel.details]

\* The mutually exclusive branches of the scan: the 'to' test is only reached
\* when the 'from' test failed.
GoesToAffects_test_inverted(rel, component_id) == rel.from # component_id

GoesToAffects(rel, component_id) == rel.from = component_id

GoesToAffectedBy(rel, component_id) ==
    /\ ~(rel.from = component_id)
    /\ rel.to = component_id

RECURSIVE ScanAffects(_, _)
ScanAffects(rels, component_id) ==
    IF rels = <<>> THEN <<>>
    ELSE (IF GoesToAffects(Head(rels), component_id)
          THEN <<AffectsItem(Head(rels))>> ELSE <<>>)
         \o ScanAffects(Tail(rels), component_id)

RECURSIVE ScanAffectedBy(_, _)
ScanAffectedBy(rels, component_id) ==
    IF rels = <<>> THEN <<>>
    ELSE (IF GoesToAffectedBy(Head(rels), component_id)
          THEN <<AffectedByItem(Head(rels))>> ELSE <<>>)
         \o ScanAffectedBy(Tail(rels), component_id)

\* __init__ + load_data: relationships.json is read when it exists, else [].
AnStart ==
    /\ an_relationships \in SeqsUpTo(ImpactEdges, MaxImpactEdges)
    /\ an_pc = "ready"
    /\ an_component = ""
    /\ an_affected_by = <<>>
    /\ an_affects = <<>>

AnInit == AnStart /\ ExIdle /\ CvIdle /\ PaIdle /\ LdIdle /\ XmIdle /\ WkIdle

generate_impact_analysis(component_id) ==
    /\ an_pc = "ready"
    /\ an_component' = component_id
    /\ an_affects' = ScanAffects(an_relationships, component_id)
    /\ an_affected_by' = ScanAffectedBy(an_relationships, component_id)
    /\ an_pc' = "done"
    /\ UNCHANGED an_relationships
    /\ UNCHANGED <<exVars, cvVars, paVars, ldVars, xmVars, wkVars>>

\* The caller asks again (main() runs the analysis for several components).
AnAgain ==
    /\ an_pc = "done"
    /\ an_pc' = "ready"
    /\ UNCHANGED <<an_relationships, an_component, an_affected_by, an_affects>>
    /\ UNCHANGED <<exVars, cvVars, paVars, ldVars, xmVars, wkVars>>

AnNext ==
    \/ \E c \in ImpactIds \cup {"object_Unknown"} : generate_impact_analysis(c)
    \/ AnAgain

SpecImpact == AnInit /\ [][AnNext]_vars

\* The edges of E with from = X, and those with to = X, in file order.
RECURSIVE Outgoing(_, _)
Outgoing(rels, x) ==
    IF rels = <<>> THEN <<>>
    ELSE (IF Head(rels).from = x THEN <<Head(rels)>> ELSE <<>>) \o Outgoing(Tail(rels), x)

RECURSIVE Incoming(_, _)
Incoming(rels, x) ==
    IF rels = <<>> THEN <<>>
    ELSE (IF Head(rels).to = x THEN <<Head(rels)>> ELSE <<>>) \o Incoming(Tail(rels), x)

MapAffects(rels) == [i \in 1..Len(rels) |-> AffectsItem(rels[i])]

MapAffectedBy(rels) == [i \in 1..Len(rels) |-> AffectedByItem(rels[i])]

\* C1: after generate_impact_analysis(X), 'affects' is exactly the edges with
\* from = X and 'affected_by' exactly the edges with to = X (an edge with
\* from = to = X in both).
C1_ImpactExact ==
    an_pc = "done" =>
        /\ an_affects = MapAffects(Outgoing(an_relationships, an_component))
        /\ an_affected_by = MapAffectedBy(Incoming(an_relationships, an_component))

(***************************************************************************)
(* The conversion run                                                      *)
(***************************************************************************)
ConvInit ==
    CvStart(Trees(ConvItems, MaxFiles)) /\ AnIdle /\ ExIdle /\ PaIdle /\ LdIdle /\ XmIdle /\ WkIdle

ConvNext ==
    \/ ConvStart
    \/ StepObject
    \/ StepLayout
    \/ StepClass
    \/ StepTrigger
    \/ StepWorkflow
    \/ ConvFinish

SpecConv == ConvInit /\ [][ConvNext]_vars


(***************************************************************************)
(* Claims about the conversion run                                         *)
(***************************************************************************)
Triple(rel) == <<rel.from, rel.to, rel.type>>

NoDuplicateTriples(rels) ==
    \A i, j \in 1..Len(rels) : Triple(rels[i]) = Triple(rels[j]) => i = j

\* C2: after any sequence of processing operations the edge collection holds
\* no two edges with the same (from, to, type) triple.
C2_EdgeCollectionIsSet == NoDuplicateTriples(relationships)

\* C3: a second convert_all_metadata on the same converter over the
\* unchanged tree returns the same entities, the same edge collection and
\* the same processed counters as the first.
C3_RerunYieldsSame ==
    Len(cv_results) >= 2 =>
        /\ cv_results[2].metadata = cv_results[1].metadata
        /\ \A key \in DOMAIN FreshStats \ {"errors"} :
               cv_results[2].stats[key] = cv_results[1].stats[key]

\* The files of the tree, each with the type and qualifying name its entity
\* record would carry and the counter that counts it ("" when the code keeps
\* no counter for it).
SubFilesOf(dir, kind, type, counter) ==
    {[status |-> dir[kind][i].status,
      entity |-> <<type, dir.name, dir[kind][i].name>>,
      counter |-> counter] : i \in 1..Len(dir[kind])}

SourceStatus(item) == IF ~item.readable \/ item.meta = "bad" THEN "bad" ELSE "ok"

FilesOfItem(item) ==
    CASE item.kind = "object" ->
            (IF item.objfile = "absent" THEN {}
             ELSE {[status |-> item.objfile, entity |-> <<"CustomObject", item.name>>,
                    counter |-> "objects_processed"]})
            \cup SubFilesOf(item, "fields", "CustomField", "fields_processed")
            \cup SubFilesOf(item, "listViews", "ListView", "")
            \cup SubFilesOf(item, "webLinks", "WebLink", "")
      [] item.kind = "layout" ->
            {[status |-> item.status, entity |-> <<"Layout", Join(item.pieces, "")>>,
              counter |-> "layouts_processed"]}
      [] item.kind = "class" ->
            {[status |-> SourceStatus(item), entity |-> <<"ApexClass", item.name>>,
              counter |-> "classes_processed"]}
      [] item.kind = "trigger" ->
            {[status |-> SourceStatus(item), entity |-> <<"ApexTrigger", item.name>>,
              counter |-> "triggers_processed"]}
      [] item.kind = "workflow" ->
            {[status |-> item.status, entity |-> <<"Workflow", item.name>>,
              counter |-> "workflows_processed"]}

FilesOfTree(tree) == UNION {FilesOfItem(tree[i]) : i \in 1..Len(tree)}

\* Every entity record of an output, the nested ones included.
TopEntities(metadata) ==
    UNION {Range(metadata[key]) :
             key \in {"objects", "layouts", "classes", "triggers", "workflows"}}

NestedEntities(metadata) ==
    UNION {Range(o.fields) \cup Range(o.listViews) \cup Range(o.webLinks) :
             o \in Range(metadata.objects)}

Entities(metadata) == TopEntities(metadata) \cup NestedEntities(metadata)

\* The (type, qualifying name) of an entity record: the owning object and
\* the component name for fields, list views and web links, the name alone
\* otherwise.
QualifyingName(e) ==
    IF e.type \in {"CustomField", "ListView", "WebLink"}
    THEN <<e.type, e.object, e.name>>
    ELSE <<e.type, e.name>>

EntityNames(metadata) == {QualifyingName(e) : e \in Entities(metadata)}

\* C4: after a run, a file that failed to parse has no entity record in the
\* output and no count, there is one error string per failed file, and every
\* well-formed file has its record and its count.
C4_MalformedFileSkipped ==
    (cv_pc = "idle" /\ cv_runs = 1) =>
        LET files == FilesOfTree(fs)
            out == cv_results[1]
        IN  /\ \A f \in files : f.status = "bad" => f.entity \notin EntityNames(out.metadata)
            /\ \A f \in files : f.status = "ok" => f.entity \in EntityNames(out.metadata)
            /\ Len(out.stats.errors) = Cardinality({f \in files : f.status = "bad"})
            /\ \A key \in DOMAIN FreshStats \ {"errors"} :
                   out.stats[key] =
                       Cardinality({f \in files : f.counter = key /\ f.status = "ok"})

\* The edges the last process_* call appended.
AddedByLast == SubSeq(relationships, cv_last.before + 1, Len(relationships))

LastIs(op) == cv_last.op = op

\* The calls a.m( of a source text whose class is outside the denylist and
\* carries the handler naming convention.
HandlerCalls(src) ==
    {src[i] : i \in {j \in 1..Len(src) :
                        /\ src[j].k = "call"
                        /\ src[j].a \notin system_classes
                        /\ IsHandler(src[j].a)}}

HasEdge(rels, from, to, type) ==
    \E i \in 1..Len(rels) : rels[i].from = from /\ rels[i].to = to /\ rels[i].type = type

\* C6: for a trigger whose text has the head 'trigger T on O (events)' and a
\* call C.m( of a handler class, process_trigger records O and the events
\* and emits HAS_TRIGGER(O -> T), DELEGATES_TO_HANDLER(T -> C) and
\* CALLS_METHOD(T -> C) naming the method m.
C6_TriggerScenario ==
    (LastIs("triggers") /\ cv_last.out # None /\ FirstHead(cv_last.item.source) # None) =>
        LET head == FirstHead(cv_last.item.source)[1]
            t == "trigger_" \o cv_last.item.name
        IN  /\ cv_last.out[1].object = Some(head.b)
            /\ cv_last.out[1].trigger_events = head.ev
            /\ HasEdge(AddedByLast, "object_" \o head.b, t, "HAS_TRIGGER")
            /\ \A c \in HandlerCalls(cv_last.item.source) :
                   /\ HasEdge(AddedByLast, t, "class_" \o c.a, "DELEGATES_TO_HANDLER")
                   /\ \E i \in 1..Len(AddedByLast) :
                          /\ AddedByLast[i].from = t
                          /\ AddedByLast[i].to = "class_" \o c.a
                          /\ AddedByLast[i].type = "CALLS_METHOD"
                          /\ AddedByLast[i].details = "Calls method " \o c.b

\* C9: two entities that differ in type or qualifying name never carry the
\* same id.
C9_IdsUnique ==
    \A e1, e2 \in Entities(all_metadata) :
        QualifyingName(e1) # QualifyingName(e2) => e1.id # e2.id

(***************************************************************************)
(* process_layout on its own: a tree that holds one layout file.           *)
(***************************************************************************)
MaxLayoutFields == 3

LayoutTexts ==
    {Text("Name", FALSE), Text("Name", TRUE), Text("Industry", FALSE), Text("", TRUE),
     Text("", FALSE)}

LayoutNamePieces ==
    {<<"A", "-", "L">>, <<"A_B", "-", "L", " ", "X">>, <<"A", "-", "L", "-", "M">>, <<"Plain">>}

RelatedChoices ==
    {<<>>, <<[object |-> Text("Contact", FALSE), fields |-> <<Text("Name", FALSE)>>]>>}

SingleLayouts ==
    {LayoutFile(p, s, t, r) : p \in LayoutNamePieces, s \in {"ok", "bad"},
                              t \in SeqsUpTo(LayoutTexts, MaxLayoutFields),
                              r \in RelatedChoices}

LayoutInit ==
    CvStart({<<l>> : l \in SingleLayouts}) /\ AnIdle /\ ExIdle /\ PaIdle /\ LdIdle /\ XmIdle /\ WkIdle

LayoutNext == ConvStart \/ StepLayout \/ ConvFinish

SpecLayout == LayoutInit /\ [][LayoutNext]_vars

\* The field names placed on a layout: the text, without surrounding white
\* space, of every 'field' element that has text.
PlacedFieldNames(layout_file) ==
    {layout_file.field_texts[i].core :
        i \in {j \in 1..Len(layout_file.field_texts) :
                  layout_file.field_texts[j].core # "" \/ layout_file.field_texts[j].padded}}

\* O of a layout named 'O-<anything>'.
IsObjectOf(object_name, pieces) ==
    \E k \in 1..Len(pieces) :
        /\ pieces[k] = "-"
        /\ \A j \in 1..(k - 1) : pieces[j] # "-"
        /\ object_name = Join(SubSeq(pieces, 1, k - 1), "")

EdgesOfType(rels, type) == {i \in 1..Len(rels) : rels[i].type = type}

LayoutProcessed ==
    /\ LastIs("layouts")
    /\ cv_last.out # None
    /\ "-" \in Range(cv_last.item.pieces)

ParserInit == PaStart /\ AnIdle /\ ExIdle /\ CvIdle /\ LdIdle /\ XmIdle /\ WkIdle

ParserNext == save_comprehensive_metadata \/ save_enhanced_metadata

SpecParser == ParserInit /\ [][ParserNext]_vars

\* Field name f, with only its trailing 'Id' removed, is the object name P.
IsLookupName(pieces, P) ==
    /\ Len(pieces) >= 2
    /\ pieces[Len(pieces)] = "Id"
    /\ Join(SubSeq(pieces, 1, Len(pieces) - 1), "") = P

AnalysisDone == pa_last.op \in {"comprehensive", "enhanced"}

\* C7: the relationship analysis emits LOOKUP_TO(O -> P) exactly when O has
\* a field that ends in 'Id', is not 'Id' itself, and with only its trailing
\* 'Id' removed is one of the known object names Account, Contact,
\* Opportunity; an inner 'Id' is never removed.
C7_LookupExact ==
    AnalysisDone =>
        \A i \in 1..Len(pa_last.objects) : \A P \in {"Account", "Contact", "Opportunity"} :
            HasEdge(pa_last.relationships, pa_last.objects[i].name, P, "LOOKUP_TO")
            <=> \E j \in 1..Len(pa_last.objects[i].fields) :
                    IsLookupName(pa_last.objects[i].fields[j].name, P)

(***************************************************************************)
(* The loader on its own                                                   *)
(***************************************************************************)
LoaderInit == LdStart /\ AnIdle /\ ExIdle /\ CvIdle /\ PaIdle /\ XmIdle /\ WkIdle

LoaderNext ==
    \/ load_all_metadata
    \/ clear_database
    \/ create_constraints
    \/ load_objects
    \/ load_layouts
    \/ load_classes
    \/ load_triggers
    \/ load_workflows
    \/ load_relationships

SpecLoader == LoaderInit /\ [][LoaderNext]_vars

\* The nodes the entity arrays on disk describe.
FileNodes ==
    AllObjectNodes(FileRecords("objects"))
    \o PlainNodes("Layout", FileRecords("layouts"))
    \o PlainNodes("ApexClass", FileRecords("classes"))
    \o PlainNodes("ApexTrigger", FileRecords("triggers"))
    \o PlainNodes("Workflow", FileRecords("workflows"))

FileIds == {FileNodes[i].id : i \in 1..Len(FileNodes)}

NodesWithId(id) == {i \in 1..Len(ld_nodes) : ld_nodes[i].id = id}

RelationshipsFor(rel) ==
    {k \in 1..Len(ld_rels) :
        /\ ld_nodes[ld_rels[k].from].id = rel.from
        /\ ld_nodes[ld_rels[k].to].id = rel.to
        /\ ld_rels[k].type = rel.type}

\* The arrays were loaded into the empty store, and then once more without
\* clearing.
LoadedTwice ==
    /\ ld_pc = "idle"
    /\ Len(ld_outcome) = 2
    /\ ~ld_outcome[1].raised
    /\ ~ld_outcome[2].clear
    /\ Cardinality(FileIds) = Len(FileNodes)

\* C10: loading the same entity arrays and edge array a second time without
\* clearing in between raises no error and leaves exactly one node per
\* entity id and exactly one relationship per (from, to, type).
C10_ReloadIsUpsert ==
    LoadedTwice =>
        /\ ~ld_outcome[2].raised
        /\ \A id \in FileIds : Cardinality(NodesWithId(id)) = 1
        /\ \A rel \in Range(FileRecords("relationships")) :
               (rel.from \in FileIds /\ rel.to \in FileIds) =>
                   Cardinality(RelationshipsFor(rel)) = 1

(***************************************************************************)
(* Claims about load_relationships                                         *)
(***************************************************************************)
\* The relationships the step from this state to the next one adds.
AddedRelationships == SubSeq(ld_rels', Len(ld_rels) + 1, Len(ld_rels'))

HasNode(id) == \E i \in 1..Len(ld_nodes) : ld_nodes[i].id = id

BothMatched(rel) == HasNode(rel.from) /\ HasNode(rel.to)

\* Relationship r of the store (between node positions) was made for edge rel.
MadeFor(r, rel) ==
    /\ ld_nodes[r.from].id = rel.from
    /\ ld_nodes[r.to].id = rel.to
    /\ r.type = rel.type

\* C11: load_relationships creates no node; for an edge whose source or
\* target matches no node it creates no relationship and raises no error,
\* and every other edge of the array, before or after it, is loaded.
C11_UnmatchedEdgeSkipped ==
    [][ld_pc = "load_relationships" =>
          LET edges == FileRecords("relationships")
              added == AddedRelationships
          IN  /\ ld_nodes' = ld_nodes
              /\ ld_pc' = "idle"
              /\ ~ld_outcome'[Len(ld_outcome')].raised
              /\ \A k \in 1..Len(added) :
                     \E i \in 1..Len(edges) :
                         BothMatched(edges[i]) /\ MadeFor(added[k], edges[i])
              /\ \A i \in 1..Len(edges) :
                     BothMatched(edges[i]) =>
                         \E k \in 1..Len(added) : MadeFor(added[k], edges[i])]_vars

\* An array whose first edge has no node for its target and whose second
\* edge has both has been loaded: one relationship, for the second edge.
C11_Witness ==
    /\ ld_pc = "idle"
    /\ Len(ld_outcome) = 1
    /\ ~ld_outcome[1].raised
    /\ Len(FileRecords("relationships")) = 2
    /\ HasNode(FileRecords("relationships")[1].from)
    /\ ~HasNode(FileRecords("relationships")[1].to)
    /\ BothMatched(FileRecords("relationships")[2])
    /\ Len(ld_rels) = 1
    /\ MadeFor(ld_rels[1], FileRecords("relationships")[2])

(***************************************************************************)
(* Claims about the impact analysis of an unknown component                *)
(***************************************************************************)
\* component_id is neither the from nor the to of any edge.
UnknownComponent(rels, component_id) ==
    \A i \in 1..Len(rels) : rels[i].from # component_id /\ rels[i].to # component_id

\* C12: for a component id that is neither from nor to of any edge (the
\* empty collection included) generate_impact_analysis returns two empty
\* lists, without an error, and leaves the edge collection as it was.
C12_UnknownIdGivesEmpty ==
    [][(an_pc = "ready" /\ UnknownComponent(an_relationships, an_component')) =>
          /\ an_pc' = "done"
          /\ an_affected_by' = <<>>
          /\ an_affects' = <<>>
          /\ an_relationships' = an_relationships]_vars

\* The analysis has returned for an id that a non-empty collection does not
\* mention.
C12_Witness ==
    /\ an_pc = "done"
    /\ an_relationships # <<>>
    /\ an_component = "object_Unknown"
    /\ UnknownComponent(an_relationships, an_component)
    /\ an_affected_by = <<>>
    /\ an_affects = <<>>

(***************************************************************************)
(* Claims about the shape of the dependency record                         *)
(***************************************************************************)
IsList(v) == DOMAIN v = 1..Len(v)

\* C13: for every source text, the empty one included, the record returned
\* by extract_comprehensive_dependencies has a key for each of the nine
\* categories, every value is a list, and the value of a category without
\* matches is the empty list.
C13_NineCategoriesAlwaysPresent ==
    ex_pc = "done" =>
        \A key \in Categories :
            /\ key \in DOMAIN ex_result
            /\ IsList(ex_result[key])
            /\ RawDependencies(ex_source)[key] = <<>> => ex_result[key] = <<>>

\* The extractor has returned for a text with matches in one category and
\* none in another.
C13_Witness ==
    /\ ex_pc = "done"
    /\ ex_source # <<>>
    /\ Categories \subseteq DOMAIN ex_result
    /\ ex_result["objects"] # <<>>
    /\ ex_result["custom_labels"] = <<>>
    /\ ex_result["static_resources"] = <<>>

(***************************************************************************)
(* xml_to_dict on its own                                                  *)
(***************************************************************************)
XmInit == XmStart /\ AnIdle /\ ExIdle /\ CvIdle /\ PaIdle /\ LdIdle /\ WkIdle

XmNext == XmCall \/ XmNextFile

SpecXml == XmInit /\ [][XmNext]_vars

\* The text value of an element: its text without surrounding white space,
\* no value when it has none.
TextValue(element) == IF HasText(element) THEN PyStr(Strip(element.text[1])) ELSE PyNone

LocalName(tag) == tag[Len(tag)]

\* The children of an element that carry a local name, in document order.
RECURSIVE Siblings(_, _)
Siblings(elements, name) ==
    IF elements = <<>> THEN <<>>
    ELSE (IF LocalName(Head(elements).tag) = name THEN <<Head(elements)>> ELSE <<>>)
         \o Siblings(Tail(elements), name)

\* The conversion as stated: a leaf is its text value; an element with
\* children is the mapping from each child's local name to the converted
\* child, or to the list of the converted children of that name, in document
\* order, when there are two or more.
RECURSIVE Converted(_)
Converted(element) ==
    IF element.children = <<>> THEN TextValue(element)
    ELSE PyDict([name \in {LocalName(element.children[i].tag) :
                              i \in 1..Len(element.children)} |->
                    LET group == Siblings(element.children, name)
                    IN  IF Len(group) = 1 THEN Converted(group[1])
                        ELSE PyList([i \in 1..Len(group) |-> Converted(group[i])])])

\* C14: xml_to_dict converts every leaf element to its text value, every
\* element with children to a mapping from namespace-stripped child tag to
\* converted child, and two or more same-tag siblings to one list of their
\* converted values in document order; a tag that occurs once stays bare.
C14_XmlToDictShape == xm_pc = "done" => xm_result = Converted(xm_element)

(***************************************************************************)
(* Claims about the attributes and the types of the emitted edges          *)
(***************************************************************************)
\* The free-text attribute of an edge: 'context', which the converter
\* writes under the key 'details'.
HasContext(rel) == "context" \in DOMAIN rel \/ "details" \in DOMAIN rel

\* C15: every edge of the emitted edge array carries from, to, type and a
\* context; no synthesis path emits an edge without one.
C15_EveryEdgeHasContext ==
    \A i \in 1..Len(relationships) :
        /\ {"from", "to", "type"} \subseteq DOMAIN relationships[i]
        /\ HasContext(relationships[i])

\* The relationship-type taxonomy: the structural, display, reference and
\* code-dependency types of the data model, and the types of the rule table.
RelationshipTypes ==
    {"HAS_FIELD", "HAS_LISTVIEW", "HAS_WEBLINK", "HAS_LAYOUT", "HAS_TRIGGER", "HAS_AUTOMATION",
     "DISPLAYS_FIELD", "SHOWS_RELATED_LIST",
     "REFERENCES", "LOOKUP_TO", "BELONGS_TO", "RELATES_TO",
     "USES_OBJECT", "ACCESSES_FIELD", "DEPENDS_ON_CLASS", "CALLS_METHOD",
     "DELEGATES_TO_HANDLER", "AFFECTS_OBJECT", "MODIFIES_FIELD", "USES_CUSTOM_SETTING",
     "CALLS_WEBSERVICE", "USES_EMAIL_TEMPLATE", "USES_CUSTOM_LABEL", "USES_STATIC_RESOURCE",
     "CALLS_CLASS", "DISPLAYS_RELATED_FIELD"}

\* The taxonomy calls a workflow an automation rule.
TaxonomyName(type) == IF type = "HAS_WORKFLOW" THEN "HAS_AUTOMATION" ELSE type

TypesOf(rels) == {rels[i].type : i \in 1..Len(rels)}

EdgesOnDisk ==
    IF pa_existing = None THEN <<>>
    ELSE IF "items" \in DOMAIN pa_existing[1] THEN pa_existing[1].items
    ELSE IF pa_existing[1].relationships = None THEN <<>>
    ELSE pa_existing[1].relationships[1]

\* The file a pass writes its edge list to.
EdgeFileOf(op) ==
    IF op = "comprehensive" THEN "comprehensive_relationships.json"
    ELSE "enhanced_relationships.json"

\* C17: a later pass only adds edges: the edge list save_enhanced_metadata
\* and save_comprehensive_metadata write holds every edge of the
\* relationships.json found, unchanged and in its order, followed only by
\* the edges the pass adds; relationships.json itself is not written.
C17_PassOnlyAddsEdges ==
    [][pa_last' # pa_last =>
          LET written == pa_files'[EdgeFileOf(pa_last'.op)].relationships
              kept == Len(EdgesOnDisk)
          IN  /\ Len(written) >= kept
              /\ SubSeq(written, 1, kept) = EdgesOnDisk
              /\ SubSeq(written, kept + 1, Len(written)) = pa_last'.relationships
              /\ pa_existing' = pa_existing
              /\ "relationships.json" \notin DOMAIN pa_files']_vars

\* A pass has run over a relationships.json that is a mapping with one edge
\* and has written that edge first and its own edges after it.
C17_Witness ==
    /\ AnalysisDone
    /\ pa_existing # None
    /\ "relationships" \in DOMAIN pa_existing[1]
    /\ Len(EdgesOnDisk) = 1
    /\ LET written == pa_files[EdgeFileOf(pa_last.op)].relationships
       IN  /\ Len(written) > 1
           /\ written[1] = EdgesOnDisk[1]
           /\ written[2] = pa_last.relationships[1]

\* The edges proposed to a pass's edge list, in the order of their proposal:
\* those found on disk, then those of the pass.
Proposals == EdgesOnDisk \o pa_last.relationships

ContextOf(rel) ==
    IF "context" \in DOMAIN rel THEN rel.context
    ELSE IF "details" \in DOMAIN rel THEN rel.details
    ELSE ""

FirstProposalOf(triple) ==
    Proposals[CHOOSE i \in 1..Len(Proposals) :
                 /\ Triple(Proposals[i]) = triple
                 /\ \A j \in 1..(i - 1) : Triple(Proposals[j]) # triple]

\* C18: when a (from, to, type) triple is proposed more than once with
\* different contexts, exactly one edge of that triple is kept, and it
\* carries the context of the first proposal.
C18_FirstContextWins ==
    AnalysisDone =>
        LET written == pa_files[EdgeFileOf(pa_last.op)].relationships
        IN  \A i, j \in 1..Len(Proposals) :
                (/\ i < j
                 /\ Triple(Proposals[i]) = Triple(Proposals[j])
                 /\ ContextOf(Proposals[i]) # ContextOf(Proposals[j]))
                => LET kept == {k \in 1..Len(written) :
                                   Triple(written[k]) = Triple(Proposals[i])}
                   IN  /\ Cardinality(kept) = 1
                       /\ \A k \in kept :
                              ContextOf(written[k])
                                  = ContextOf(FirstProposalOf(Triple(Proposals[i])))

(***************************************************************************)
(* The extractor called on a converter at work: a caller hands source      *)
(* texts to extract_comprehensive_dependencies between the process_* calls *)
(* of the walk, which call it themselves (process_apex_class,              *)
(* process_trigger) and keep what it returned in the record under          *)
(* 'comprehensive_dependencies'.  The caller's listing order of sets and   *)
(* the walk's are chosen apart: the two calls may be made in two           *)
(* processes.                                                              *)
(***************************************************************************)
\* The texts the caller hands in, those of two forms with a query, a trigger
\* head or two calls of one class, and the class and trigger files that hold
\* them or fail.
PureSources ==
    {s \in ClassSources \cup TriggerSources :
        Len(s) = 2 /\ \E i \in 1..2 : s[i].k \in {"soql", "head"} \/ s[i].b = "b"}

PureFiles == {f \in ClassFiles \cup TriggerFiles : f.source \in PureSources \cup {<<>>}}

PureInit ==
    /\ CvStart(Trees(PureFiles, MaxFiles))
    /\ ex_source \in PureSources
    /\ ex_seed \in {0, 1}
    /\ ex_pc = "ready"
    /\ ex_result = [key \in {} |-> <<>>]
    /\ AnIdle
    /\ PaIdle
    /\ LdIdle
    /\ XmIdle
    /\ WkIdle

\* The caller goes on to the text of another component.
PureNextComponent ==
    /\ ex_pc = "done"
    /\ ex_source' \in PureSources
    /\ ex_pc' = "ready"
    /\ UNCHANGED <<ex_seed, ex_result>>
    /\ UNCHANGED <<anVars, cvVars, paVars, ldVars, xmVars, wkVars>>

PureNext ==
    \/ ConvStart
    \/ StepClass
    \/ StepTrigger
    \/ ConvFinish
    \/ ExCall
    \/ PureNextComponent

SpecPure == PureInit /\ [][PureNext]_vars

\* sorted(a) == sorted(b)
CountIn(s, x) == Cardinality({i \in 1..Len(s) : s[i] = x})

EqualOnceSorted(a, b) ==
    /\ Len(a) = Len(b)
    /\ \A x \in Range(a) \cup Range(b) : CountIn(a, x) = CountIn(b, x)

\* The walk's last step called the extractor on the text the caller handed in.
WalkCalledOn(src) ==
    /\ cv_last.op \in {"classes", "triggers"}
    /\ cv_last.out # None
    /\ cv_last.item.source = src

WalkResult == cv_last.out[1].comprehensive_dependencies

SameTextSameLists ==
    (ex_pc = "done" /\ WalkCalledOn(ex_source)) =>
        /\ DOMAIN ex_result = DOMAIN WalkResult
        /\ \A key \in DOMAIN ex_result : EqualOnceSorted(ex_result[key], WalkResult[key])

CallerCalls == ex_pc = "ready" /\ ex_pc' = "done"

TwiceObjects ==
    {ObjDir("A", "ok", f, l, <<>>) :
        f \in {<<SubF("C", "ok")>>, <<SubF("C", "ok"), SubF("B_C", "ok")>>},
        l \in {<<>>, <<SubF("All", "ok"), SubF("Mine", "ok")>>}}

TwiceLayouts ==
    {LayoutFile(<<"A", "-", "L">>, "ok", t, <<>>) :
        t \in SeqsUpTo({Text("Name", FALSE), Text("Industry", FALSE)}, 2)}

\* The same directory, its files returned in another order.
Relisted(tree) ==
    [i \in 1..Len(tree) |->
        IF tree[i].kind = "object"
        THEN [tree[i] EXCEPT !.fields = Reverse(@), !.listViews = Reverse(@),
                             !.webLinks = Reverse(@)]
        ELSE tree[i]]

\* A new process constructs a converter over the same tree.
NewProcess ==
    /\ cv_pc = "idle"
    /\ cv_runs >= 1
    /\ cv_runs < MaxRuns
    /\ fs' \in {fs, Relisted(fs)}
    /\ cv_seed' \in {0, 1}
    /\ relationships' = <<>>
    /\ conversion_stats' = FreshStats
    /\ all_metadata' = FreshMetadata
    /\ cv_last' = [op |-> "none"]
    /\ UNCHANGED <<cv_pc, cv_cursor, cv_runs, cv_results>>
    /\ UNCHANGED <<anVars, exVars, paVars, ldVars, xmVars, wkVars>>

TwiceInit ==
    /\ CvStart(Trees(TwiceObjects \cup TwiceLayouts, MaxFiles))
    /\ AnIdle
    /\ ExIdle
    /\ PaIdle
    /\ LdIdle
    /\ XmIdle
    /\ WkIdle

TwiceNext ==
    \/ ConvStart
    \/ StepObject
    \/ StepLayout
    \/ ConvFinish
    \/ NewProcess

SpecTwice == TwiceInit /\ [][TwiceNext]_vars

\* C20: normalising the same valid definition file a second time yields a
\* record equal to the first field for field, the order of its lists
\* included (an object's fields, listViews and webLinks, a layout's
\* fields_on_layout), whatever order the file system or the listing of a
\* set returns items in.
C20_SameFileSameRecord ==
    Len(cv_results) >= 2 =>
        /\ cv_results[2].metadata.objects = cv_results[1].metadata.objects
        /\ cv_results[2].metadata.layouts = cv_results[1].metadata.layouts

(***************************************************************************)
(* The per-file operations called concurrently on one converter: each      *)
(* caller runs process_field, process_layout, process_apex_class or        *)
(* process_trigger on a file of its own.  What a call computes from its    *)
(* file is local to it; its steps on the converter are the appends to      *)
(* self.relationships, the read and the write of                           *)
(* self.conversion_stats[key] += 1, and the append to the errors list.     *)
(***************************************************************************)
NumWorkers == 2

FieldJob(object_name, file) ==
    [kind |-> "field", object |-> object_name, name |-> file.name, status |-> file.status]

WorkerJobs ==
    {FieldJob("A", SubF("C", "ok")), FieldJob("B", SubF("C", "ok")),
     FieldJob("A", SubF("D", "bad"))}
    \cup {LayoutFile(<<"A", "-", "L">>, "ok", <<Text("Name", FALSE)>>, <<>>),
          LayoutFile(<<"B", "-", "L">>, "bad", <<>>, <<>>)}
    \cup {SourceFile("class", "Caller", <<Form("call", "Util", "a")>>, TRUE, "ok"),
          SourceFile("class", "Other", <<Form("soql", "Account", "Name")>>, TRUE, "ok"),
          SourceFile("class", "Broken", <<>>, FALSE, "ok")}
    \cup {SourceFile("trigger", "T", <<HeadForm("T", "Account", <<"before insert">>),
                                       Form("call", "AccountHandler", "run")>>, TRUE, "ok"),
          SourceFile("trigger", "U", <<>>, TRUE, "bad")}

\* The path of the file a job is about.
JobPath(job) ==
    IF job.kind = "field" THEN <<job.kind, job.object, job.name>>
    ELSE <<job.kind, ItemName(job)>>

\* One per-file operation run on its own from the statistics it finds.
RunAlone(job, stats, seed) ==
    CASE job.kind = "field" ->
            LET r == process_field(job, job.object, stats)
            IN  [data |-> r.data, rels |-> <<>>, stats |-> r.stats]
      [] job.kind = "layout" -> process_layout(job, stats, seed)
      [] job.kind = "class" -> process_apex_class(job, stats, seed)
      [] job.kind = "trigger" -> process_trigger(job, stats, seed)

\* self.conversion_stats[...] += 1 of the operation.
CounterOf(kind) ==
    CASE kind = "field" -> "fields_processed"
      [] kind = "layout" -> "layouts_processed"
      [] kind = "class" -> "classes_processed"
      [] kind = "trigger" -> "triggers_processed"

Workers == 1..NumWorkers

WorkersInit ==
    /\ fs \in {jobs \in [Workers -> WorkerJobs] :
                 \A v, w \in Workers : JobPath(jobs[v]) = JobPath(jobs[w]) => v = w}
    /\ cv_seed \in {0, 1}
    /\ relationships = <<>>
    /\ conversion_stats = FreshStats
    /\ all_metadata = FreshMetadata
    /\ cv_pc = "idle"
    /\ cv_cursor = 0
    /\ cv_runs = 0
    /\ cv_results = <<>>
    /\ cv_last = [op |-> "none"]
    /\ workers = [w \in Workers |-> [pc |-> "begin", todo |-> <<>>, read |-> 0, out |-> None]]
    /\ AnIdle
    /\ ExIdle
    /\ PaIdle
    /\ LdIdle
    /\ XmIdle

OnlyWorkers ==
    UNCHANGED <<fs, cv_seed, all_metadata, cv_pc, cv_cursor, cv_runs, cv_results, cv_last>>
    /\ UNCHANGED <<anVars, exVars, paVars, ldVars, xmVars>>

\* The file is read and parsed and the record and its edges are made ready;
\* a failure leads to the except clause.
WkBegin(w) ==
    /\ workers[w].pc = "begin"
    /\ LET r == RunAlone(fs[w], FreshStats, cv_seed)
       IN  workers' = [workers EXCEPT ![w] =
                          IF r.data = None
                          THEN [@ EXCEPT !.pc = "except"]
                          ELSE [@ EXCEPT !.pc = IF r.rels = <<>> THEN "read" ELSE "append",
                                         !.todo = r.rels, !.out = r.data]]
    /\ UNCHANGED <<relationships, conversion_stats>>
    /\ OnlyWorkers

\* self.relationships.append(...)
WkAppend(w) ==
    /\ workers[w].pc = "append"
    /\ relationships' = Append(relationships, Head(workers[w].todo))
    /\ workers' = [workers EXCEPT ![w] =
                      [@ EXCEPT !.todo = Tail(@),
                                !.pc = IF Len(workers[w].todo) = 1 THEN "read" ELSE "append"]]
    /\ UNCHANGED conversion_stats
    /\ OnlyWorkers

\* self.conversion_stats[key] += 1: the value is read ...
WkReadCounter(w) ==
    /\ workers[w].pc = "read"
    /\ workers' = [workers EXCEPT ![w] =
                      [@ EXCEPT !.read = conversion_stats[CounterOf(fs[w].kind)],
                                !.pc = "write"]]
    /\ UNCHANGED <<relationships, conversion_stats>>
    /\ OnlyWorkers

\* ... and the value read plus one is stored; the record is returned.
WkWriteCounter(w) ==
    /\ workers[w].pc = "write"
    /\ conversion_stats' =
           [conversion_stats EXCEPT ![CounterOf(fs[w].kind)] = workers[w].read + 1]
    /\ workers' = [workers EXCEPT ![w] = [@ EXCEPT !.pc = "done"]]
    /\ UNCHANGED relationships
    /\ OnlyWorkers

\* except Exception: self.conversion_stats['errors'].append(...); return None
WkExcept(w) ==
    /\ workers[w].pc = "except"
    /\ conversion_stats' =
           Fail(conversion_stats, RunAlone(fs[w], FreshStats, cv_seed).stats.errors[1])
    /\ workers' = [workers EXCEPT ![w] = [@ EXCEPT !.pc = "done"]]
    /\ UNCHANGED relationships
    /\ OnlyWorkers

WorkersNext ==
    \E w \in Workers :
        \/ WkBegin(w)
        \/ WkAppend(w)
        \/ WkReadCounter(w)
        \/ WkWriteCounter(w)
        \/ WkExcept(w)

SpecWorkers == WorkersInit /\ [][WorkersNext]_vars

\* The operations run one after another, in the order of the files.
RECURSIVE OneAfterAnother(_, _, _)
OneAfterAnother(jobs, acc, seed) ==
    IF jobs = <<>> THEN acc
    ELSE LET r == RunAlone(Head(jobs), acc.stats, seed)
         IN  OneAfterAnother(Tail(jobs),
                             [out |-> Append(acc.out, r.data),
                              rels |-> acc.rels \o r.rels,
                              stats |-> r.stats],
                             seed)

Sequential == OneAfterAnother(fs, [out |-> <<>>, rels |-> <<>>, stats |-> FreshStats], cv_seed)

AllReturned == \A w \in Workers : workers[w].pc = "done"

SameElements(a, b) ==
    /\ Len(a) = Len(b)
    /\ \A x \in Range(a) \cup Range(b) : CountIn(a, x) = CountIn(b, x)

SameRecords == \A w \in Workers : workers[w].out = Sequential.out[w]

SameEdges == SameElements(relationships, Sequential.rels)

SameCounters ==
    \A key \in DOMAIN FreshStats \ {"errors"} : conversion_stats[key] = Sequential.stats[key]

SameErrors == SameElements(conversion_stats.errors, Sequential.stats.errors)

\* C21: the per-file operations run concurrently for independent files, in
\* any interleaving of their steps, leave the same entity records, the same
\* edges, the same processed counters and the same errors as the operations
\* run one after another; no update of the edge list or of a counter is lost.
C21_ConcurrentAsSequential ==
    AllReturned => (SameRecords /\ SameEdges /\ SameCounters /\ SameErrors)

\* What does hold in every interleaving: the records, the edges, the errors.
InterleavingKeepsAllButCounters ==
    AllReturned => (SameRecords /\ SameEdges /\ SameErrors)

(***************************************************************************)
(* Claims about the edges made from a dependency record                    *)
(***************************************************************************)
\* The dependency record of the component the last call processed.
LastDependencies == cv_last.out[1].comprehensive_dependencies

LastProcessed(op) == LastIs(op) /\ cv_last.out # None

\* The edges of a type the last call added from a component to a target.
EdgeCount(from, to, type) ==
    Cardinality({i \in 1..Len(AddedByLast) :
                    /\ AddedByLast[i].from = from
                    /\ AddedByLast[i].to = to
                    /\ AddedByLast[i].type = type})

\* Object names are the same whatever the case of their letters.
CaseFolded(name) == IF name = "account" THEN "Account" ELSE name

\* The owning object of a trigger: the one of its head, if the head parsed.
IsOwner(trigger_file, object_name) ==
    /\ FirstHead(trigger_file.source) # None
    /\ CaseFolded(FirstHead(trigger_file.source)[1].b) = CaseFolded(object_name)

\* C22: a class gets exactly one USES_OBJECT edge per entry of its 'objects'
\* category; a trigger gets exactly one AFFECTS_OBJECT edge per entry other
\* than its owning object and none to its owning object, in whatever letter
\* case the source names it.
C22_ObjectEdges ==
    /\ LastProcessed("classes") =>
           \A o \in Range(LastDependencies.objects) :
               EdgeCount("class_" \o cv_last.item.name, "object_" \o o, "USES_OBJECT") = 1
    /\ LastProcessed("triggers") =>
           \A o \in Range(LastDependencies.objects) :
               EdgeCount("trigger_" \o cv_last.item.name, "object_" \o o, "AFFECTS_OBJECT")
                   = IF IsOwner(cv_last.item, o) THEN 0 ELSE 1

\* C23: each entry C of the 'classes' category gives exactly one edge to
\* class_C: for a trigger DELEGATES_TO_HANDLER when C's name contains
\* 'Handler' or 'Helper' and CALLS_CLASS otherwise, never both; for a class
\* DEPENDS_ON_CLASS.
C23_ClassEdges ==
    /\ LastProcessed("triggers") =>
           \A c \in Range(LastDependencies.classes) :
               LET t == "trigger_" \o cv_last.item.name
                   to == "class_" \o c
               IN  /\ EdgeCount(t, to, "DELEGATES_TO_HANDLER") = IF IsHandler(c) THEN 1 ELSE 0
                   /\ EdgeCount(t, to, "CALLS_CLASS") = IF IsHandler(c) THEN 0 ELSE 1
                   /\ EdgeCount(t, to, "DEPENDS_ON_CLASS") = 0
    /\ LastProcessed("classes") =>
           \A c \in Range(LastDependencies.classes) :
               LET cls == "class_" \o cv_last.item.name
                   to == "class_" \o c
               IN  /\ EdgeCount(cls, to, "DEPENDS_ON_CLASS") = 1
                   /\ EdgeCount(cls, to, "DELEGATES_TO_HANDLER") = 0
                   /\ EdgeCount(cls, to, "CALLS_CLASS") = 0

\* A trigger that names a handler, a helper and another class.
C23_Witness ==
    /\ LastProcessed("triggers")
    /\ {"AccountHandler", "MathHelper", "Util"} \subseteq Range(LastDependencies.classes)
    /\ EdgeCount("trigger_T", "class_MathHelper", "DELEGATES_TO_HANDLER") = 1
    /\ EdgeCount("trigger_T", "class_Util", "CALLS_CLASS") = 1

\* The five categories whose entries name a target by themselves, with the
\* type of their edge and the id made from an entry.
NamedCategories ==
    {"custom_settings", "web_services", "email_templates", "custom_labels",
     "static_resources"}

TypeOfCategory(category) ==
    CASE category = "custom_settings" -> "USES_CUSTOM_SETTING"
      [] category = "web_services" -> "CALLS_WEBSERVICE"
      [] category = "email_templates" -> "USES_EMAIL_TEMPLATE"
      [] category = "custom_labels" -> "USES_CUSTOM_LABEL"
      [] category = "static_resources" -> "USES_STATIC_RESOURCE"

IdOfEntry(category, entry) ==
    CASE category = "custom_settings" -> "object_" \o entry
      [] category = "web_services" -> WebServiceId(entry)
      [] category = "email_templates" -> "emailtemplate_" \o entry
      [] category = "custom_labels" -> "customlabel_" \o entry
      [] category = "static_resources" -> "staticresource_" \o entry

OneEdgePerEntry(from) ==
    \A category \in NamedCategories :
        \A entry \in Range(LastDependencies[category]) :
            EdgeCount(from, IdOfEntry(category, entry), TypeOfCategory(category)) = 1

ClassEdgePerEntry == LastProcessed("classes") => OneEdgePerEntry("class_" \o cv_last.item.name)

TriggerEdgePerEntry ==
    LastProcessed("triggers") => OneEdgePerEntry("trigger_" \o cv_last.item.name)

\* C24: for a class and for a trigger, each entry of custom_settings,
\* web_services, email_templates, custom_labels and static_resources gives
\* exactly one edge of the category's type from the component to the id made
\* from the entry.
C24_NamedCategoryEdges == ClassEdgePerEntry /\ TriggerEdgePerEntry

(***************************************************************************)
(* Claims about the target of the HAS_FIELD edges                          *)
(***************************************************************************)
\* The targets of the HAS_FIELD edges of an object, in the order emitted:
\* one per field of the object, in the order of its fields.
RECURSIVE HasFieldTargets(_, _)
HasFieldTargets(rels, from) ==
    IF rels = <<>> THEN <<>>
    ELSE (IF Head(rels).type = "HAS_FIELD" /\ Head(rels).from = from
          THEN <<Head(rels).to>> ELSE <<>>)
         \o HasFieldTargets(Tail(rels), from)

\* objects: per object the id its edges start from and the names of its
\* fields.  Two fields of one name on two objects have different targets.
SameNameOtherTarget(rels, objects) ==
    \A o1, o2 \in Range(objects) :
        LET t1 == HasFieldTargets(rels, o1.from)
            t2 == HasFieldTargets(rels, o2.from)
        IN  /\ Len(t1) = Len(o1.fields)
            /\ o1.from # o2.from =>
                   \A i \in 1..Len(t1), j \in 1..Len(t2) :
                       o1.fields[i] = o2.fields[j] => t1[i] # t2[j]

FieldNamesOf(fields) == [i \in 1..Len(fields) |-> fields[i].name]

\* process_custom_object: the target is the id of the nested field record.
ConverterTargetsUnderOwner ==
    /\ (cv_pc = "running" /\ cv_runs = 0) =>
           SameNameOtherTarget(relationships,
                               [i \in 1..Len(all_metadata.objects) |->
                                   [from |-> all_metadata.objects[i].id,
                                    fields |-> FieldNamesOf(all_metadata.objects[i].fields)]])
    /\ LastProcessed("objects") =>
           HasFieldTargets(AddedByLast, cv_last.out[1].id)
               = [i \in 1..Len(cv_last.out[1].fields) |-> cv_last.out[1].fields[i].id]

\* C25: the target of a HAS_FIELD edge is the field's id under its owning
\* object: in the edges analyze_comprehensive_relationships emits, two
\* fields of the same name on two objects have different targets.
C25_HasFieldTargetUnderOwner ==
    pa_last.op = "comprehensive" =>
        SameNameOtherTarget(pa_last.relationships,
                            [i \in 1..Len(pa_last.objects) |->
                                [from |-> pa_last.objects[i].name,
                                 fields |-> FieldNamesOf(pa_last.objects[i].fields)]])

(***************************************************************************)
(* Claims about the nested records of an object and its structural edges   *)
(***************************************************************************)
NestedIds(object_data, kind) ==
    [i \in 1..Len(object_data[kind]) |-> object_data[kind][i].id]

\* The targets of the edges of a type the last call added from an id.
TargetsAdded(from, type) ==
    {AddedByLast[i].to : i \in {j \in 1..Len(AddedByLast) :
                                   AddedByLast[j].from = from /\ AddedByLast[j].type = type}}

NestedType(kind) ==
    CASE kind = "fields" -> "HAS_FIELD"
      [] kind = "listViews" -> "HAS_LISTVIEW"
      [] kind = "webLinks" -> "HAS_WEBLINK"

\* C26: after process_custom_object for O the nested fields, listViews and
\* webLinks records of O and the structural edges added for O correspond one
\* to one: a nested record with id i exists exactly when one HAS_FIELD,
\* HAS_LISTVIEW or HAS_WEBLINK edge (by kind) from O's id to i was added;
\* on a fresh converter fields_processed is the number of HAS_FIELD edges.
C26_NestedMatchesEdges ==
    LastProcessed("objects") =>
        LET o == cv_last.out[1]
        IN  /\ \A kind \in {"fields", "listViews", "webLinks"} :
                   /\ Range(NestedIds(o, kind)) = TargetsAdded(o.id, NestedType(kind))
                   /\ \A i \in Range(NestedIds(o, kind)) :
                          /\ EdgeCount(o.id, i, NestedType(kind)) = 1
                          /\ CountIn(NestedIds(o, kind), i) = 1
            /\ (cv_last.before = 0 /\ cv_last.stats_before = FreshStats) =>
                   conversion_stats.fields_processed
                       = Cardinality({i \in 1..Len(relationships) :
                                         relationships[i].type = "HAS_FIELD"})

\* An object with a field file that parsed and one that did not, first of
\* its converter.
C26_Witness ==
    /\ LastProcessed("objects")
    /\ cv_last.before = 0
    /\ Len(cv_last.item.fields) = 2
    /\ Len(cv_last.out[1].fields) = 1
    /\ Len(conversion_stats.errors) = 1
    /\ Len(relationships) = 1

(***************************************************************************)
(* EnhancedNeo4jMetadataLoader (enhanced_neo4j_loader.py) over the same    *)
(* graph store.  Its statements are MERGE statements that match nodes by   *)
(* label and id when they write a node and by name when they write the     *)
(* relationship of an edge.  The methods are modelled as they are written. *)
(***************************************************************************)
FieldNode(id, name, object) ==
    [label |-> "CustomField", id |-> id, name |-> name, object |-> object]

\* The nodes the original load_objects creates for one object record, the
\* field nodes with their object property (neo4j_loader.py:96-111).
StoredObjectNodes(obj) ==
    <<Node("CustomObject", obj.id, obj.name)>>
    \o [i \in 1..Len(obj.fields) |->
          FieldNode(obj.fields[i].id, obj.fields[i].name, obj.fields[i].object)]
    \o [i \in 1..Len(obj.listViews) |->
          Node("ListView", obj.listViews[i].id, obj.listViews[i].name)]
    \o [i \in 1..Len(obj.webLinks) |->
          Node("WebLink", obj.webLinks[i].id, obj.webLinks[i].name)]

RECURSIVE AllStoredObjectNodes(_)
AllStoredObjectNodes(objects) ==
    IF objects = <<>> THEN <<>>
    ELSE StoredObjectNodes(Head(objects)) \o AllStoredObjectNodes(Tail(objects))

\* MERGE (n:Label {id: $id}) SET n.name = ...: every node of that label and
\* id gets the properties; without one a node is created.
MergeNode(nodes, node) ==
    IF \E i \in 1..Len(nodes) : nodes[i].label = node.label /\ nodes[i].id = node.id
    THEN [i \in 1..Len(nodes) |->
            IF nodes[i].label = node.label /\ nodes[i].id = node.id THEN node ELSE nodes[i]]
    ELSE Append(nodes, node)

\* MERGE (a)-[:T]->(b) for the matched pairs, in order: a relationship is
\* created where the pair has none of that type.
RECURSIVE MergeRelationships(_, _, _)
MergeRelationships(rels, pairs, type) ==
    IF pairs = <<>> THEN rels
    ELSE LET r == [from |-> Head(pairs)[1], to |-> Head(pairs)[2], type |-> type]
         IN  MergeRelationships(IF r \in Range(rels) THEN rels ELSE Append(rels, r),
                                Tail(pairs), type)

IdPairs(nodes, from_label, from_id, to_label, to_id) ==
    {p \in (1..Len(nodes)) \X (1..Len(nodes)) :
        /\ nodes[p[1]].label = from_label /\ nodes[p[1]].id = from_id
        /\ nodes[p[2]].label = to_label /\ nodes[p[2]].id = to_id}

\* _load_single_object: the object node, then per field its node and the
\* HAS_FIELD relationship, then per list view its node and HAS_LISTVIEW.
RECURSIVE LoadNested(_, _, _, _)
LoadNested(store, obj_name, kind, items) ==
    IF items = <<>> THEN store
    ELSE LET name == Head(items).name
             node == IF kind = "fields"
                     THEN FieldNode(obj_name \o "_" \o name, name, obj_name)
                     ELSE Node("ListView", obj_name \o "_" \o name \o "_listview", name)
             nodes == MergeNode(store.nodes, node)
             pairs == IdPairs(nodes, "CustomObject", obj_name \o "_object",
                              node.label, node.id)
             type == IF kind = "fields" THEN "HAS_FIELD" ELSE "HAS_LISTVIEW"
         IN  LoadNested([nodes |-> nodes,
                         rels |-> MergeRelationships(store.rels, PairsInOrder(pairs), type)],
                        obj_name, kind, Tail(items))

load_single_object(store, obj_data) ==
    LET o == [nodes |-> MergeNode(store.nodes,
                                  Node("CustomObject", obj_data.name \o "_object",
                                       obj_data.name)),
              rels |-> store.rels]
    IN  LoadNested(LoadNested(o, obj_data.name, "fields", obj_data.fields),
                   obj_data.name, "listViews", obj_data.listViews)

\* The MATCH clauses of _create_enhanced_relationship, by relationship type.
NamePairs(nodes, rel) ==
    {p \in (1..Len(nodes)) \X (1..Len(nodes)) :
        LET a == nodes[p[1]]
            b == nodes[p[2]]
        IN  /\ a.name = rel.from
            /\ b.name = rel.to
            /\ CASE rel.type \in {"BELONGS_TO", "LOOKUP_TO", "RELATES_TO"} ->
                      a.label = "CustomObject" /\ b.label = "CustomObject"
                 [] rel.type = "HAS_FIELD" ->
                      /\ a.label = "CustomObject"
                      /\ b.label = "CustomField"
                      /\ "object" \in DOMAIN b
                      /\ b.object = rel.from
                 [] rel.type = "DISPLAYS_FIELD" ->
                      a.label = "Layout" /\ b.label = "CustomField"
                 [] OTHER -> TRUE}

create_enhanced_relationship(nodes, rels, rel) ==
    MergeRelationships(rels, PairsInOrder(NamePairs(nodes, rel)), rel.type)

RECURSIVE CreateEnhancedRelationships(_, _, _)
CreateEnhancedRelationships(nodes, rels, edges) ==
    IF edges = <<>> THEN rels
    ELSE CreateEnhancedRelationships(nodes,
                                     create_enhanced_relationship(nodes, rels, Head(edges)),
                                     Tail(edges))

\* ---- the JSON documents of converted_metadata ---------------------------
\* A document is a list or a mapping; the mapping may have the key
\* 'relationships'.
JsonList(items) == [kind |-> "list", items |-> items]

JsonDict(entry) == [kind |-> "dict", relationships |-> entry]

\* data = json.load(f); relationships = data.get('relationships', []): a list
\* has no get, and the AttributeError leaves the try block of the caller.
EdgesRead(data) ==
    IF data.kind = "list" THEN [raised |-> TRUE, edges |-> <<>>]
    ELSE [raised |-> FALSE,
          edges |-> IF data.relationships = None THEN <<>> ELSE data.relationships[1]]

\* The file load_enhanced_relationships reads.
RelationshipsFile(files) ==
    IF files.comprehensive_relationships # None THEN "comprehensive_relationships"
    ELSE IF files.enhanced_relationships # None THEN "enhanced_relationships"
    ELSE "relationships"

ConverterEdges ==
    <<LoaderEdge("object_Account", "field_Account_Name", "HAS_FIELD"),
      LoaderEdge("class_Caller", "object_Account", "USES_OBJECT")>>

NamedEdges ==
    <<LoaderEdge("Contact", "Account", "LOOKUP_TO"),
      LoaderEdge("Contact", "AccountId", "HAS_FIELD"),
      LoaderEdge("Caller", "Account", "USES_OBJECT")>>

LaterEdges == <<LoaderEdge("Contact", "Account", "BELONGS_TO")>>

EnhancedObject(name, fields, listViews) ==
    [name |-> name, fields |-> [i \in 1..Len(fields) |-> [name |-> fields[i]]],
     listViews |-> [i \in 1..Len(listViews) |-> [name |-> listViews[i]]]]

EnhancedDirectories ==
    {[objects |-> o, layouts |-> None, classes |-> c, triggers |-> None, workflows |-> None,
      relationships |-> r, comprehensive_relationships |-> cr,
      enhanced_relationships |-> er, Contact |-> co, Opportunity |-> op] :
        o \in {None, Some(<<LoaderObject("Account", <<LoaderField("Account", "Name")>>,
                                         <<>>, <<>>)>>)},
        c \in ClassArrays,
        r \in {None, Some(JsonList(ConverterEdges)), Some(JsonList(NamedEdges)),
               Some(JsonDict(Some(NamedEdges))), Some(JsonDict(None))},
        cr \in {None, Some(JsonDict(Some(LaterEdges)))},
        er \in {None, Some(JsonDict(Some(LaterEdges))), Some(JsonList(LaterEdges))},
        co \in {None, Some(EnhancedObject("Contact", <<"AccountId", "Name">>, <<"All">>))},
        op \in {None, Some(EnhancedObject("Opportunity", <<"Name">>, <<>>))}}

\* An enhanced loader connected to an empty store.
EnStart ==
    /\ ld_files \in EnhancedDirectories
    /\ ld_nodes = <<>>
    /\ ld_rels = <<>>
    /\ ld_constraints = {}
    /\ ld_pc = "ready"
    /\ ld_clear = FALSE
    /\ ld_loads = 0
    /\ ld_outcome = <<>>

\* load_all_enhanced_metadata(clear_existing) is entered.
load_all_enhanced_metadata ==
    /\ ld_pc = "ready"
    /\ ld_loads < MaxLoads
    /\ \E clear_existing \in BOOLEAN :
           /\ ld_clear' = clear_existing
           /\ ld_pc' = IF clear_existing THEN "en_clear_database"
                       ELSE "create_enhanced_constraints"
    /\ UNCHANGED <<ld_files, ld_nodes, ld_rels, ld_constraints, ld_loads, ld_outcome>>
    /\ UNCHANGED <<anVars, exVars, cvVars, paVars, xmVars, wkVars>>

\* EnhancedNeo4jMetadataLoader.clear_database
en_clear_database ==
    /\ ld_pc = "en_clear_database"
    /\ ld_nodes' = <<>>
    /\ ld_rels' = <<>>
    /\ ld_pc' = "create_enhanced_constraints"
    /\ UNCHANGED <<ld_files, ld_constraints, ld_clear, ld_loads, ld_outcome>>
    /\ UNCHANGED <<anVars, exVars, cvVars, paVars, xmVars, wkVars>>

create_enhanced_constraints ==
    /\ ld_pc = "create_enhanced_constraints"
    /\ \E accepted \in {{}, NodeLabels} :
           ld_constraints' =
               ld_constraints \cup {l \in accepted : ~HasDuplicates(ld_nodes, l)}
    /\ ld_pc' = "load_existing_metadata"
    /\ UNCHANGED <<ld_files, ld_nodes, ld_rels, ld_clear, ld_loads, ld_outcome>>
    /\ UNCHANGED <<anVars, exVars, cvVars, paVars, xmVars, wkVars>>

\* _load_existing_metadata: load_objects, load_layouts, load_classes,
\* load_triggers and load_workflows of the original loader, one after the
\* other; the error of one of them leaves load_all_enhanced_metadata, which
\* logs it and raises it again.
load_existing_metadata ==
    /\ ld_pc = "load_existing_metadata"
    /\ LET new == AllStoredObjectNodes(FileRecords("objects"))
                  \o PlainNodes("Layout", FileRecords("layouts"))
                  \o PlainNodes("ApexClass", FileRecords("classes"))
                  \o PlainNodes("ApexTrigger", FileRecords("triggers"))
                  \o PlainNodes("Workflow", FileRecords("workflows"))
           r == CreateNodes(ld_nodes, ld_constraints, new)
       IN  /\ ld_nodes' = r.nodes
           /\ IF r.raised
              THEN /\ ld_pc' = "ready"
                   /\ ld_loads' = ld_loads + 1
                   /\ ld_outcome' = Append(ld_outcome,
                                           [clear |-> ld_clear, raised |-> TRUE,
                                            file |-> None, attempted |-> <<>>])
              ELSE /\ ld_pc' = "load_enhanced_objects"
                   /\ UNCHANGED <<ld_loads, ld_outcome>>
    /\ UNCHANGED <<ld_files, ld_rels, ld_constraints, ld_clear>>
    /\ UNCHANGED <<anVars, exVars, cvVars, paVars, xmVars, wkVars>>

\* load_enhanced_objects: Contact, then Opportunity, each from its file when
\* there is one.
load_enhanced_objects ==
    /\ ld_pc = "load_enhanced_objects"
    /\ LET s0 == [nodes |-> ld_nodes, rels |-> ld_rels]
           s1 == IF ld_files.Contact = None THEN s0
                 ELSE load_single_object(s0, ld_files.Contact[1])
           s2 == IF ld_files.Opportunity = None THEN s1
                 ELSE load_single_object(s1, ld_files.Opportunity[1])
       IN  /\ ld_nodes' = s2.nodes
           /\ ld_rels' = s2.rels
    /\ ld_pc' = "load_enhanced_relationships"
    /\ UNCHANGED <<ld_files, ld_constraints, ld_clear, ld_loads, ld_outcome>>
    /\ UNCHANGED <<anVars, exVars, cvVars, paVars, xmVars, wkVars>>

\* load_enhanced_relationships, with load_standard_relationships where
\* neither of the two later files exists; load_all_enhanced_metadata then
\* prints the statistics and returns.
load_enhanced_relationships ==
    /\ ld_pc = "load_enhanced_relationships"
    /\ LET file == RelationshipsFile(ld_files)
           read == IF ld_files[file] = None THEN [raised |-> FALSE, edges |-> <<>>]
                   ELSE EdgesRead(ld_files[file][1])
       IN  /\ ld_rels' = CreateEnhancedRelationships(ld_nodes, ld_rels, read.edges)
           /\ ld_outcome' = Append(ld_outcome,
                                   [clear |-> ld_clear, raised |-> FALSE,
                                    file |-> IF ld_files[file] = None THEN None
                                             ELSE Some(file),
                                    attempted |-> read.edges])
    /\ ld_pc' = "ready"
    /\ ld_loads' = ld_loads + 1
    /\ UNCHANGED <<ld_files, ld_nodes, ld_constraints, ld_clear>>
    /\ UNCHANGED <<anVars, exVars, cvVars, paVars, xmVars, wkVars>>

EnhancedInit == EnStart /\ AnIdle /\ ExIdle /\ CvIdle /\ PaIdle /\ XmIdle /\ WkIdle

EnhancedNext ==
    \/ load_all_enhanced_metadata
    \/ en_clear_database
    \/ create_enhanced_constraints
    \/ load_existing_metadata
    \/ load_enhanced_objects
    \/ load_enhanced_relationships

SpecEnhanced == EnhancedInit /\ [][EnhancedNext]_vars

\* ---- Claims about the enhanced loader -----------------------------------
\* The edges relationships.json holds, in either format.
EdgesHeld(data) ==
    IF data.kind = "list" THEN data.items
    ELSE IF data.relationships = None THEN <<>> ELSE data.relationships[1]

\* C27: when neither comprehensive_relationships.json nor
\* enhanced_relationships.json exists, load_enhanced_relationships falls back
\* to relationships.json and attempts to create every edge the file holds,
\* both when it is the flat edge array of the converter and when it is a
\* mapping with the key 'relationships'; the whole file is never dropped.
C27_FallbackAttemptsEveryEdge ==
    \A i \in 1..Len(ld_outcome) :
        (/\ ~ld_outcome[i].raised
         /\ ld_files.comprehensive_relationships = None
         /\ ld_files.enhanced_relationships = None
         /\ ld_files.relationships # None)
        => /\ ld_outcome[i].file = Some("relationships")
           /\ ld_outcome[i].attempted = EdgesHeld(ld_files.relationships[1])

\* What does hold: the fallback reads relationships.json and attempts every
\* edge of a mapping; of a flat array it attempts none.
FallbackAttemptsMappingOnly ==
    \A i \in 1..Len(ld_outcome) :
        (/\ ~ld_outcome[i].raised
         /\ ld_files.comprehensive_relationships = None
         /\ ld_files.enhanced_relationships = None
         /\ ld_files.relationships # None)
        => /\ ld_outcome[i].file = Some("relationships")
           /\ ld_outcome[i].attempted =
                  (IF ld_files.relationships[1].kind = "list" THEN <<>>
                   ELSE EdgesHeld(ld_files.relationships[1]))

\* The class part of a qualified call 'C.m'.
ClassOfMethod(entry) == SplitDot(entry)[1]

\* The edges of a type the last call added.
AddedOfType(type) == {AddedByLast[i] : i \in {j \in 1..Len(AddedByLast) :
                                                 AddedByLast[j].type = type}}

\* C28: in the dependency record of a class or a trigger each entry 'C.m' of
\* methods has its class C in classes, also after the removal of duplicates
\* and of short entries; so every CALLS_METHOD edge of a class comes with a
\* DEPENDS_ON_CLASS edge that has the same source and the same target.
C28_MethodsHaveTheirClass ==
    /\ (LastProcessed("classes") \/ LastProcessed("triggers")) =>
           \A entry \in Range(LastDependencies.methods) :
               /\ HasDot(entry)
               /\ ClassOfMethod(entry) \in Range(LastDependencies.classes)
    /\ LastProcessed("classes") =>
           \A e \in AddedOfType("CALLS_METHOD") :
               \E f \in AddedOfType("DEPENDS_ON_CLASS") : f.from = e.from /\ f.to = e.to

\* A class that calls two methods of Util and names a one-letter type: the
\* record keeps Util once and drops the short entry.
C28_Witness ==
    /\ LastProcessed("classes")
    /\ Len(LastDependencies.methods) = 2
    /\ LastDependencies.classes = <<"Util">>
    /\ LastDependencies.objects = <<>>
    /\ Matches(cv_last.item.source, "dml_new") = <<"A">>
    /\ Cardinality(AddedOfType("CALLS_METHOD")) = 2
    /\ Cardinality(AddedOfType("DEPENDS_ON_CLASS")) = 1

\* A call of process_layout, process_apex_class, process_trigger or
\* process_workflow is made in this step and returns None.
FailedCall ==
    /\ cv_cursor' = cv_cursor + 1
    /\ cv_last'.op \in {"layouts", "classes", "triggers", "workflows"}
    /\ cv_last'.out = None

\* C29: edge emission is all or nothing per component: a call of
\* process_layout, process_apex_class, process_trigger or process_workflow
\* that fails and returns None leaves the edge collection exactly as it was
\* before the call, and only the errors list has grown.
C29_FailedCallKeepsEdges ==
    [][FailedCall =>
         /\ relationships' = relationships
         /\ all_metadata' = all_metadata
         /\ Len(conversion_stats'.errors) = Len(conversion_stats.errors) + 1
         /\ SubSeq(conversion_stats'.errors, 1, Len(conversion_stats.errors))
                = conversion_stats.errors
         /\ [conversion_stats' EXCEPT !.errors = conversion_stats.errors]
                = conversion_stats]_vars

\* A trigger that failed after a component that left edges.
C29_Witness ==
    /\ LastIs("triggers")
    /\ cv_last.out = None
    /\ cv_last.before > 0
    /\ Len(relationships) = cv_last.before
    /\ Len(conversion_stats.errors) = 1

(***************************************************************************)
(* Both loaders, each on its own directory and store.                      *)
(***************************************************************************)
LoadersInit == LoaderInit \/ EnhancedInit

LoadersNext ==
    \/ load_all_metadata
    \/ clear_database
    \/ create_constraints
    \/ load_objects
    \/ load_layouts
    \/ load_classes
    \/ load_triggers
    \/ load_workflows
    \/ load_relationships
    \/ load_all_enhanced_metadata
    \/ en_clear_database
    \/ create_enhanced_constraints
    \/ load_existing_metadata
    \/ load_enhanced_objects
    \/ load_enhanced_relationships

SpecLoaders == LoadersInit /\ [][LoadersNext]_vars

\* The steps that may follow a step; a step that raises ends the run.
StepsAfter(pc) ==
    CASE pc = "idle" -> {"clear_database", "create_constraints"}
      [] pc = "clear_database" -> {"create_constraints"}
      [] pc = "create_constraints" -> {"load_objects"}
      [] pc = "load_objects" -> {"load_layouts", "idle"}
      [] pc = "load_layouts" -> {"load_classes", "idle"}
      [] pc = "load_classes" -> {"load_triggers", "idle"}
      [] pc = "load_triggers" -> {"load_workflows", "idle"}
      [] pc = "load_workflows" -> {"load_relationships", "idle"}
      [] pc = "load_relationships" -> {"idle"}
      [] pc = "ready" -> {"en_clear_database", "create_enhanced_constraints"}
      [] pc = "en_clear_database" -> {"create_enhanced_constraints"}
      [] pc = "create_enhanced_constraints" -> {"load_existing_metadata"}
      [] pc = "load_existing_metadata" -> {"load_enhanced_objects", "ready"}
      [] pc = "load_enhanced_objects" -> {"load_enhanced_relationships"}
      [] pc = "load_enhanced_relationships" -> {"ready"}

\* The steps that load the nodes of objects (with their fields, list views
\* and web links), layouts, classes, triggers and workflows.
NodeLoadingSteps ==
    {"load_objects", "load_layouts", "load_classes", "load_triggers", "load_workflows",
     "load_existing_metadata"}

\* The steps that load the edges of a relationships file.
EdgeLoadingSteps == {"load_relationships", "load_enhanced_relationships"}

\* The ids of the nodes load_enhanced_objects merges for the run's files.
EnhancedObjectIds(obj_data) ==
    {obj_data.name \o "_object"}
    \cup {obj_data.name \o "_" \o obj_data.fields[i].name : i \in 1..Len(obj_data.fields)}
    \cup {obj_data.name \o "_" \o obj_data.listViews[i].name \o "_listview" :
            i \in 1..Len(obj_data.listViews)}

EnhancedIds ==
    IF "Contact" \notin DOMAIN ld_files THEN {}
    ELSE (IF ld_files.Contact = None THEN {} ELSE EnhancedObjectIds(ld_files.Contact[1]))
         \cup (IF ld_files.Opportunity = None THEN {}
               ELSE EnhancedObjectIds(ld_files.Opportunity[1]))

====
